---- MODULE Spec2Model ----
(***************************************************************************)
(* arxiv-reader: the local paper store (services/local_papers.ts) and the  *)
(* PDF-conversion cache (services/docling.ts).                             *)
(*                                                                         *)
(* Every asynchronous function is modelled as a process that moves from    *)
(* one await to the next: one action per await, each acting on the files   *)
(* on disk.  File-system calls that the code guards with try/catch, or     *)
(* whose rejection it lets propagate, may fail: the failure is an input of *)
(* the action.                                                             *)
(***************************************************************************)
EXTENDS Integers, Sequences, FiniteSets, TLC

(***************************************************************************)
(* Input envelope.                                                         *)
(***************************************************************************)
\* Paper identifiers (opaque strings, the PDF file name stems).
Ids == {"p1", "p2"}
\* Tags a user may add or remove.
Tags == {"t1"}
\* PaperStatus, in the scan order ['unread', 'read'] of the code.
Statuses == <<"unread", "read">>
Status == {"unread", "read"}
\* The processes: Spec runs the operations one at a time on SeqProcs.
Procs == {"main", "other"}
SeqProcs == {"main"}

VARIABLES
    metaFile,   \* metaFile[s]: the file <dir(s)>/metadata.json
    pdfFile,    \* pdfFile[s][id]: the bytes of <dir(s)>/<id>.pdf, NoFile if absent
    pc,         \* pc[p]: the await process p is suspended at
    op,         \* op[p]: the operation p runs and its arguments
    frame,      \* frame[p]: the local variables of that operation
    result,     \* result[p]: how the operation ended ("ok" | "error")
    pre,        \* history: pre[p], the store as p's operation found it when called
    prev,       \* history: the operation that completed before the current one
    variant,    \* which of the two conversion functions of docling.ts runs
    cacheFile,  \* .docling_cache/cache_metadata.json
    PDF_CACHE,  \* the module-level index of pdf_to_markdown
    artifacts,  \* artifacts[o]: the conversion output at path o, while it exists
    now,        \* the clock behind Date.now()
    cpc,        \* cpc[r]: where conversion request r stands
    creq,       \* creq[r]: the pdfPath argument of request r
    cloc,       \* cloc[r]: the local variables of request r
    cret,       \* cret[r]: what request r resolved or rejected with
    hist,       \* history of the cache: uses, purges, lost writes, overlaps,
                \* the outputs of the successful conversions
    budget,     \* what is left of the bounds of the conversion runs
    markdown,   \* the string handed to extractPartsFromResult
    parts,      \* the segments it returned
    xpc         \* whether that call has returned

repoVars == <<metaFile, pdfFile, pc, op, frame, result, pre, prev>>
cacheVars == <<variant, cacheFile, PDF_CACHE, artifacts, now, cpc, creq, cloc,
               cret, hist, budget>>
partVars == <<markdown, parts, xpc>>
vars == <<repoVars, cacheVars, partVars>>

\* No call of extractPartsFromResult.
PartsIdle ==
    /\ markdown = <<>>
    /\ parts = <<>>
    /\ xpc = "idle"

(***************************************************************************)
(* Metadata records and mappings (PapersMetadataFile).                     *)
(***************************************************************************)
NoFile == 0
EmptyMap == <<>>

\* The record a download stores for id: the fields no operation here changes
\* are fixed per identifier, the user flags start cleared.
NewMetadata(id) ==
    [title        |-> id,
     published    |-> "2024-01-01T00:00:00.000Z",
     downloadedAt |-> IF id = "p1" THEN 1700000001 ELSE 1700000002,
     fileSize     |-> IF id = "p1" THEN 1001 ELSE 1002,
     starred      |-> FALSE,
     archived     |-> FALSE,
     tags         |-> <<>>]

\* The bytes of the PDF a download stores for id.
PdfBytes(id) == IF id = "p1" THEN 11 ELSE 12

\* metadata[id] is truthy
Has(m, id) == id \in DOMAIN m
\* Mutant of Remove: the delete is forgotten.
RemoveNothing(m, id) == m
\* delete metadata[id]
Remove(m, id) == [k \in DOMAIN m \ {id} |-> m[k]]
\* Mutant of Put: the record is written into a fresh object, not into the
\* mapping that was read.
PutAlone(m, id, r) == [k \in {id} |-> r]
\* metadata[id] = r
Put(m, id, r) == [k \in DOMAIN m \cup {id} |-> IF k = id THEN r ELSE m[k]]

\* A JavaScript object is a function on the keys it has. A key of
\* ArxivPaper that may be left undefined (doi?, journalRef?, comment?).
OptionalFields == {"doi"}
undefined == "undefined"

\* Mutant of JSONstringify: arrays are written empty.
JSONstringifyNoTags(data) ==
    [id \in DOMAIN data |-> [data[id] EXCEPT !.tags = <<>>]]

\* JSON.stringify(data, null, 2): the text, as the members it lists. A member
\* whose value is undefined is left out.
JSONstringify(data) ==
    [id \in DOMAIN data |->
        [f \in {g \in DOMAIN data[id] :
                  g \in OptionalFields => data[id][g] # undefined}
           |-> data[id][f]]]

\* JSON.parse(rawData): an object with the members of the text.
JSONparse(rawData) == rawData

\* The file that holds JSON.stringify(m), given by what JSON.parse makes of it.
JsonFile(m) == [kind |-> "json", map |-> JSONparse(JSONstringify(m))]
MissingFile == [kind |-> "missing", map |-> EmptyMap]
CorruptFile == [kind |-> "corrupt", map |-> EmptyMap]
\* A file with no content but white space.
EmptyFile == [kind |-> "empty", map |-> EmptyMap]

\* Mutant of readMetadataFile: the read error is not caught.
readMetadataFileRaises(status) ==
    IF metaFile[status].kind = "json" THEN metaFile[status].map ELSE [raised |-> TRUE]
\* readMetadataFile: the parsed mapping, {} when the file is missing or is
\* not valid JSON.
readMetadataFile(status) ==
    IF metaFile[status].kind = "json" THEN metaFile[status].map ELSE EmptyMap

\* Mutant of writeMetadataFile: a call that rejects has written the mapping.
writeMetadataFileRejectsLate(status, data, outcome) ==
    CASE outcome = "ok"   -> [metaFile EXCEPT ![status] = JsonFile(data)]
      [] outcome = "eio"  -> [metaFile EXCEPT ![status] = JsonFile(data)]
      [] outcome = "torn" -> [metaFile EXCEPT ![status] = CorruptFile]
\* writeMetadataFile, by outcome of fs.promises.writeFile: the file holds the
\* serialised mapping, or the call rejects and leaves the file as it was
\* ("eio") or truncated ("torn").
writeMetadataFile(status, data, outcome) ==
    CASE outcome = "ok"   -> [metaFile EXCEPT ![status] = JsonFile(data)]
      [] outcome = "eio"  -> metaFile
      [] outcome = "torn" -> [metaFile EXCEPT ![status] = CorruptFile]

WriteOutcomes == {"ok", "eio", "torn"}
IoOutcomes == {"ok", "eio"}

\* getPaperFilePath
getPaperFilePath(paperId, status) ==
    [dir  |-> IF status = "unread" THEN "unreadPapers" ELSE "readPapers",
     file |-> paperId]

\* convertMetadataToLocalPaper
convertMetadataToLocalPaper(paperId, metadata, status) ==
    [id           |-> paperId,
     title        |-> metadata.title,
     published    |-> metadata.published,
     filePath     |-> getPaperFilePath(paperId, status),
     downloadedAt |-> metadata.downloadedAt,
     fileSize     |-> metadata.fileSize,
     starred      |-> metadata.starred,
     archived     |-> metadata.archived,
     tags         |-> metadata.tags]

Undefined == [undefined |-> TRUE]

\* Mutant of getLocalPaper: the scan starts with the read collection.
getLocalPaperReadFirst(id) ==
    IF Has(readMetadataFile("read"), id)
    THEN convertMetadataToLocalPaper(id, readMetadataFile("read")[id], "read")
    ELSE IF Has(readMetadataFile("unread"), id)
    THEN convertMetadataToLocalPaper(id, readMetadataFile("unread")[id], "unread")
    ELSE Undefined

\* getLocalPaper: scans unread then read, first match wins.
getLocalPaper(id) ==
    IF Has(readMetadataFile("unread"), id)
    THEN convertMetadataToLocalPaper(id, readMetadataFile("unread")[id], "unread")
    ELSE IF Has(readMetadataFile("read"), id)
    THEN convertMetadataToLocalPaper(id, readMetadataFile("read")[id], "read")
    ELSE Undefined

\* listLocalPapers(status?): the papers of the collections scanned (one, or
\* both when status is omitted), as a set.
listLocalPapers(statusesToScan) ==
    UNION {{convertMetadataToLocalPaper(id, readMetadataFile(s)[id], s) :
              id \in DOMAIN readMetadataFile(s)} : s \in statusesToScan}

(***************************************************************************)
(* The update functions handed to updatePaperMetadata.                     *)
(***************************************************************************)
RECURSIVE ArrayFromSet(_)
\* Array.from(new Set(tags)): first occurrences, in order.
ArrayFromSet(tags) ==
    IF tags = <<>> THEN <<>>
    ELSE LET init == ArrayFromSet(SubSeq(tags, 1, Len(tags) - 1))
             last == tags[Len(tags)]
         IN  IF \E i \in 1..Len(init) : init[i] = last THEN init
             ELSE Append(init, last)

\* setPaperStarred: meta => ({...meta, starred})
\* Mutant of setStarredFn: the record is rebuilt with an empty tag list.
setStarredFnFresh(meta, starred) == [meta EXCEPT !.starred = starred, !.tags = <<>>]
setStarredFn(meta, starred) == [meta EXCEPT !.starred = starred]
\* setPaperArchived: meta => ({...meta, archived})
setArchivedFn(meta, archived) == [meta EXCEPT !.archived = archived]
\* Mutant of addTagFn: the tag is pushed without the Set.
addTagFnPush(meta, tag) == [meta EXCEPT !.tags = Append(meta.tags, tag)]
\* addPaperTag: new Set(meta.tags).add(tag), Array.from
addTagFn(meta, tag) == [meta EXCEPT !.tags = ArrayFromSet(Append(meta.tags, tag))]
\* Mutant of removeTagFn: everything from the tag on is dropped.
removeTagFnTruncate(meta, tag) ==
    LET at == {i \in DOMAIN meta.tags : meta.tags[i] = tag}
    IN  IF at = {} THEN meta
        ELSE [meta EXCEPT !.tags = SubSeq(meta.tags, 1, (CHOOSE i \in at : TRUE) - 1)]
\* removePaperTag: meta.tags.filter(t => t !== tag)
removeTagFn(meta, tag) ==
    LET Keep(t) == t # tag IN [meta EXCEPT !.tags = SelectSeq(meta.tags, Keep)]

UpdateNames == {"setPaperStarred", "setPaperArchived", "addPaperTag", "removePaperTag"}
TransitionNames == {"markPaperAsRead", "markPaperAsUnread"}
OpNames == TransitionNames \cup {"deleteLocalPaper"} \cup UpdateNames

updateFn(o, meta) ==
    CASE o.name = "setPaperStarred"  -> setStarredFn(meta, o.flag)
      [] o.name = "setPaperArchived" -> setArchivedFn(meta, o.flag)
      [] o.name = "addPaperTag"      -> addTagFn(meta, o.tag)
      [] o.name = "removePaperTag"   -> removeTagFn(meta, o.tag)

(***************************************************************************)
(* Processes.                                                              *)
(***************************************************************************)
NoOp == [name |-> "none", id |-> "p1", flag |-> FALSE, tag |-> "t1"]
\* The locals of an operation; unlinked is how its fs.promises.unlink went
\* ("ok" | "ENOENT" | "EIO"), e the call whose rejection the operation threw,
\* overlapped whether another operation was in flight while this one was.
NoFrame == [status |-> "unread", buf |-> EmptyMap, paperMeta |-> Undefined,
            fileData |-> NoFile, unlinked |-> "none", e |-> "none",
            overlapped |-> FALSE]
\* History: the store as the operation found it when it was called.
NoSnapshot == [meta |-> [s \in Status |-> EmptyMap],
               pdf  |-> [s \in Status |-> [i \in Ids |-> NoFile]],
               kind |-> [s \in Status |-> "missing"]]
Snapshot == [meta |-> [s \in Status |-> readMetadataFile(s)], pdf |-> pdfFile,
             kind |-> [s \in Status |-> metaFile[s].kind]]
NoPrev == [op |-> NoOp, result |-> "none", pre |-> NoSnapshot]

\* The collection a status transition moves the paper out of, and into.
Src(o) == IF o.name = "markPaperAsRead" THEN "unread" ELSE "read"
\* Mutant of Dst: the record is written back to the collection it came from.
DstIsSrc(o) == Src(o)
Dst(o) == IF o.name = "markPaperAsRead" THEN "read" ELSE "unread"

FirstPc(name) ==
    CASE name \in TransitionNames   -> "t_readSrc"
      [] name = "deleteLocalPaper"  -> "d_read"
      [] name \in UpdateNames       -> "u_read"
      [] name = "initializeLocalFileStorage" -> "i_access"
      [] name = "writeMetadataFile"  -> "w_write"

Ops ==
    [name : TransitionNames \cup {"deleteLocalPaper"}, id : Ids,
     flag : {FALSE}, tag : {"t1"}]
    \cup [name : {"setPaperStarred", "setPaperArchived"}, id : Ids,
          flag : BOOLEAN, tag : {"t1"}]
    \cup [name : {"addPaperTag", "removePaperTag"}, id : Ids,
          flag : {FALSE}, tag : Tags]

\* The operation returns (resolves) or throws (rejects).
Finish(p, how) ==
    /\ pc' = [pc EXCEPT ![p] = "done"]
    /\ result' = [result EXCEPT ![p] = how]

\* The operation rejects with the error of call e.
Throw(p, e) ==
    /\ Finish(p, "error")
    /\ frame' = [frame EXCEPT ![p].e = e]

\* Operation of process q is suspended at one of its awaits.
Suspended(q) == pc[q] \notin {"idle", "done"}

\* A caller invokes operation o on process p.
Call(p, o) ==
    /\ pc[p] = "idle"
    /\ op' = [op EXCEPT ![p] = o]
    /\ pc' = [pc EXCEPT ![p] = FirstPc(o.name)]
    /\ frame' = [q \in Procs |->
                  IF q = p
                  THEN [NoFrame EXCEPT !.overlapped = \E r \in Procs : Suspended(r)]
                  ELSE IF Suspended(q) THEN [frame[q] EXCEPT !.overlapped = TRUE]
                  ELSE frame[q]]
    /\ pre' = [pre EXCEPT ![p] = Snapshot]
    /\ result' = [result EXCEPT ![p] = "none"]
    /\ UNCHANGED <<metaFile, pdfFile, prev>>
    /\ UNCHANGED <<cacheVars, partVars>>

\* The caller has seen the outcome.
Forget(p) ==
    /\ pc[p] = "done"
    /\ pc' = [pc EXCEPT ![p] = "idle"]
    /\ op' = [op EXCEPT ![p] = NoOp]
    /\ frame' = [frame EXCEPT ![p] = NoFrame]
    /\ pre' = [pre EXCEPT ![p] = NoSnapshot]
    /\ result' = [result EXCEPT ![p] = "none"]
    /\ UNCHANGED <<metaFile, pdfFile>>
    /\ UNCHANGED <<cacheVars, partVars>>

Return(p) ==
    /\ Forget(p)
    /\ prev' = NoPrev

\* The same, with the completed operation kept as history.
ReturnRecorded(p) ==
    /\ Forget(p)
    /\ prev' = [op |-> op[p], result |-> result[p], pre |-> pre[p]]

(***************************************************************************)
(* markPaperAsRead / markPaperAsUnread, one action per await.              *)
(***************************************************************************)
\* Mutant of MarkReadSrc: the record carried over is a fresh one.
MarkReadSrcFresh(p) ==
    /\ pc[p] = "t_readSrc"
    /\ LET m == readMetadataFile(Src(op[p]))
       IN  IF Has(m, op[p].id)
           THEN /\ frame' = [frame EXCEPT ![p].buf = m,
                                          ![p].paperMeta = NewMetadata(op[p].id)]
                /\ pc' = [pc EXCEPT ![p] = "t_mkdir"]
                /\ UNCHANGED result
           ELSE /\ Finish(p, "ok")
                /\ UNCHANGED frame
    /\ UNCHANGED <<metaFile, pdfFile, op>>
    /\ UNCHANGED <<pre, prev>>
    /\ UNCHANGED <<cacheVars, partVars>>

\* let srcMetadata = await readMetadataFile(src); if (!paperMeta) return
MarkReadSrc(p) ==
    /\ pc[p] = "t_readSrc"
    /\ LET m == readMetadataFile(Src(op[p]))
       IN  IF Has(m, op[p].id)
           THEN /\ frame' = [frame EXCEPT ![p].buf = m, ![p].paperMeta = m[op[p].id]]
                /\ pc' = [pc EXCEPT ![p] = "t_mkdir"]
                /\ UNCHANGED result
           ELSE /\ Finish(p, "ok")
                /\ UNCHANGED frame
    /\ UNCHANGED <<metaFile, pdfFile, op>>
    /\ UNCHANGED <<pre, prev>>
    /\ UNCHANGED <<cacheVars, partVars>>

\* Mutant of MarkMkdir: the metadata is updated before the PDF is moved.
MarkMkdirThenMetadata(p) ==
    /\ pc[p] = "t_mkdir"
    /\ \E outcome \in IoOutcomes :
         IF outcome = "ok"
         THEN pc' = [pc EXCEPT ![p] = "t_writeSrc"] /\ UNCHANGED <<result, frame>>
         ELSE Throw(p, "mkdir")
    /\ UNCHANGED <<metaFile, pdfFile, op>>
    /\ UNCHANGED <<pre, prev>>
    /\ UNCHANGED <<cacheVars, partVars>>

\* await fs.promises.mkdir(path.dirname(newPdfPath), {recursive: true})
MarkMkdir(p) ==
    /\ pc[p] = "t_mkdir"
    /\ \E outcome \in IoOutcomes :
         IF outcome = "ok"
         THEN pc' = [pc EXCEPT ![p] = "t_readPdf"] /\ UNCHANGED <<result, frame>>
         ELSE Throw(p, "mkdir")
    /\ UNCHANGED <<metaFile, pdfFile, op>>
    /\ UNCHANGED <<pre, prev>>
    /\ UNCHANGED <<cacheVars, partVars>>

\* Mutant of MarkReadPdf: the ENOENT of the read is rethrown like any other
\* error.
MarkReadPdfRethrows(p) ==
    /\ pc[p] = "t_readPdf"
    /\ LET bytes == pdfFile[Src(op[p])][op[p].id]
       IN  IF bytes = NoFile
           THEN /\ Throw(p, "readFile")
           ELSE \E outcome \in IoOutcomes :
                  IF outcome = "ok"
                  THEN /\ frame' = [frame EXCEPT ![p].fileData = bytes]
                       /\ pc' = [pc EXCEPT ![p] = "t_writePdf"]
                       /\ UNCHANGED result
                  ELSE Throw(p, "readFile")
    /\ UNCHANGED <<metaFile, pdfFile, op>>
    /\ UNCHANGED <<pre, prev>>
    /\ UNCHANGED <<cacheVars, partVars>>

\* const fileData = await fs.promises.readFile(oldPdfPath); ENOENT is swallowed
\* by the catch, any other rejection is rethrown.
MarkReadPdf(p) ==
    /\ pc[p] = "t_readPdf"
    /\ LET bytes == pdfFile[Src(op[p])][op[p].id]
       IN  IF bytes = NoFile
           THEN /\ pc' = [pc EXCEPT ![p] = "t_writeSrc"]
                /\ UNCHANGED <<frame, result>>
           ELSE \E outcome \in IoOutcomes :
                  IF outcome = "ok"
                  THEN /\ frame' = [frame EXCEPT ![p].fileData = bytes]
                       /\ pc' = [pc EXCEPT ![p] = "t_writePdf"]
                       /\ UNCHANGED result
                  ELSE Throw(p, "readFile")
    /\ UNCHANGED <<metaFile, pdfFile, op>>
    /\ UNCHANGED <<pre, prev>>
    /\ UNCHANGED <<cacheVars, partVars>>

\* Mutant of MarkWritePdf: the bytes are not written.
MarkWritePdfNothing(p) ==
    /\ pc[p] = "t_writePdf"
    /\ \E outcome \in IoOutcomes :
         IF outcome = "ok"
         THEN /\ pc' = [pc EXCEPT ![p] = "t_unlink"]
              /\ UNCHANGED <<pdfFile, result, frame>>
         ELSE Throw(p, "writeFile") /\ UNCHANGED pdfFile
    /\ UNCHANGED <<metaFile, op>>
    /\ UNCHANGED <<pre, prev>>
    /\ UNCHANGED <<cacheVars, partVars>>

\* await fs.promises.writeFile(newPdfPath, fileData)
MarkWritePdf(p) ==
    /\ pc[p] = "t_writePdf"
    /\ \E outcome \in IoOutcomes :
         IF outcome = "ok"
         THEN /\ pdfFile' = [pdfFile EXCEPT ![Dst(op[p])][op[p].id] = frame[p].fileData]
              /\ pc' = [pc EXCEPT ![p] = "t_unlink"]
              /\ UNCHANGED <<result, frame>>
         ELSE Throw(p, "writeFile") /\ UNCHANGED pdfFile
    /\ UNCHANGED <<metaFile, op>>
    /\ UNCHANGED <<pre, prev>>
    /\ UNCHANGED <<cacheVars, partVars>>

\* await fs.promises.unlink(oldPdfPath); ENOENT is swallowed
MarkUnlink(p) ==
    /\ pc[p] = "t_unlink"
    /\ IF pdfFile[Src(op[p])][op[p].id] = NoFile
       THEN /\ pc' = [pc EXCEPT ![p] = "t_writeSrc"]
            /\ frame' = [frame EXCEPT ![p].unlinked = "ENOENT"]
            /\ UNCHANGED <<pdfFile, result>>
       ELSE \E outcome \in IoOutcomes :
              IF outcome = "ok"
              THEN /\ pdfFile' = [pdfFile EXCEPT ![Src(op[p])][op[p].id] = NoFile]
                   /\ pc' = [pc EXCEPT ![p] = "t_writeSrc"]
                   /\ frame' = [frame EXCEPT ![p].unlinked = "ok"]
                   /\ UNCHANGED result
              ELSE /\ Finish(p, "error")
                   /\ frame' = [frame EXCEPT ![p].unlinked = "EIO", ![p].e = "unlink"]
                   /\ UNCHANGED pdfFile
    /\ UNCHANGED <<metaFile, op>>
    /\ UNCHANGED <<pre, prev>>
    /\ UNCHANGED <<cacheVars, partVars>>

\* delete srcMetadata[id]; await writeMetadataFile(src, srcMetadata)
MarkWriteSrc(p) ==
    /\ pc[p] = "t_writeSrc"
    /\ \E outcome \in WriteOutcomes :
         LET m == Remove(frame[p].buf, op[p].id)
         IN  /\ metaFile' = writeMetadataFile(Src(op[p]), m, outcome)
             /\ IF outcome = "ok"
                THEN /\ frame' = [frame EXCEPT ![p].buf = m]
                     /\ pc' = [pc EXCEPT ![p] = "t_readDst"]
                     /\ UNCHANGED result
                ELSE Throw(p, "writeMetadataFile")
    /\ UNCHANGED <<pdfFile, op>>
    /\ UNCHANGED <<pre, prev>>
    /\ UNCHANGED <<cacheVars, partVars>>

\* let dstMetadata = await readMetadataFile(dst)
MarkReadDst(p) ==
    /\ pc[p] = "t_readDst"
    /\ frame' = [frame EXCEPT ![p].buf = readMetadataFile(Dst(op[p]))]
    /\ pc' = [pc EXCEPT ![p] = "t_writeDst"]
    /\ UNCHANGED <<metaFile, pdfFile, op, result>>
    /\ UNCHANGED <<pre, prev>>
    /\ UNCHANGED <<cacheVars, partVars>>

\* dstMetadata[id] = paperMeta; await writeMetadataFile(dst, dstMetadata)
MarkWriteDst(p) ==
    /\ pc[p] = "t_writeDst"
    /\ \E outcome \in WriteOutcomes :
         LET m == Put(frame[p].buf, op[p].id, frame[p].paperMeta)
         IN  /\ metaFile' = writeMetadataFile(Dst(op[p]), m, outcome)
             /\ IF outcome = "ok" THEN Finish(p, "ok") /\ UNCHANGED frame
                ELSE Throw(p, "writeMetadataFile")
    /\ UNCHANGED <<pdfFile, op>>
    /\ UNCHANGED <<pre, prev>>
    /\ UNCHANGED <<cacheVars, partVars>>

(***************************************************************************)
(* deleteLocalPaper: for (const status of ['unread', 'read']) ...          *)
(***************************************************************************)
\* Mutant of DeleteRead: only the unread collection is scanned.
DeleteReadUnreadOnly(p) ==
    /\ pc[p] = "d_read"
    /\ LET m == readMetadataFile(frame[p].status)
       IN  IF Has(m, op[p].id)
           THEN /\ frame' = [frame EXCEPT ![p].buf = m]
                /\ pc' = [pc EXCEPT ![p] = "d_unlink"]
                /\ UNCHANGED result
           ELSE /\ Finish(p, "ok")
                /\ UNCHANGED frame
    /\ UNCHANGED <<metaFile, pdfFile, op>>
    /\ UNCHANGED <<pre, prev>>
    /\ UNCHANGED <<cacheVars, partVars>>

\* let metadata = await readMetadataFile(status); if (metadata[id]) ...
DeleteRead(p) ==
    /\ pc[p] = "d_read"
    /\ LET m == readMetadataFile(frame[p].status)
       IN  IF Has(m, op[p].id)
           THEN /\ frame' = [frame EXCEPT ![p].buf = m]
                /\ pc' = [pc EXCEPT ![p] = "d_unlink"]
                /\ UNCHANGED result
           ELSE IF frame[p].status = "unread"
           THEN /\ frame' = [frame EXCEPT ![p].status = "read"]
                /\ UNCHANGED <<pc, result>>
           ELSE /\ Finish(p, "ok")
                /\ UNCHANGED frame
    /\ UNCHANGED <<metaFile, pdfFile, op>>
    /\ UNCHANGED <<pre, prev>>
    /\ UNCHANGED <<cacheVars, partVars>>

\* Mutant of DeleteUnlink: every unlink error is ignored.
DeleteUnlinkIgnoresAll(p) ==
    /\ pc[p] = "d_unlink"
    /\ IF pdfFile[frame[p].status][op[p].id] = NoFile
       THEN /\ frame' = [frame EXCEPT ![p].unlinked = "ENOENT"]
            /\ UNCHANGED pdfFile
       ELSE \E outcome \in IoOutcomes :
              IF outcome = "ok"
              THEN /\ pdfFile' = [pdfFile EXCEPT ![frame[p].status][op[p].id] = NoFile]
                   /\ frame' = [frame EXCEPT ![p].unlinked = "ok"]
              ELSE /\ frame' = [frame EXCEPT ![p].unlinked = "EIO"]
                   /\ UNCHANGED pdfFile
    /\ pc' = [pc EXCEPT ![p] = "d_write"]
    /\ UNCHANGED <<metaFile, op, result>>
    /\ UNCHANGED <<pre, prev>>
    /\ UNCHANGED <<cacheVars, partVars>>

\* await fs.promises.unlink(pdfPath); ENOENT is ignored, anything else rethrown
DeleteUnlink(p) ==
    /\ pc[p] = "d_unlink"
    /\ IF pdfFile[frame[p].status][op[p].id] = NoFile
       THEN /\ pc' = [pc EXCEPT ![p] = "d_write"]
            /\ frame' = [frame EXCEPT ![p].unlinked = "ENOENT"]
            /\ UNCHANGED <<pdfFile, result>>
       ELSE \E outcome \in IoOutcomes :
              IF outcome = "ok"
              THEN /\ pdfFile' = [pdfFile EXCEPT ![frame[p].status][op[p].id] = NoFile]
                   /\ pc' = [pc EXCEPT ![p] = "d_write"]
                   /\ frame' = [frame EXCEPT ![p].unlinked = "ok"]
                   /\ UNCHANGED result
              ELSE /\ Finish(p, "error")
                   /\ frame' = [frame EXCEPT ![p].unlinked = "EIO", ![p].e = "unlink"]
                   /\ UNCHANGED pdfFile
    /\ UNCHANGED <<metaFile, op>>
    /\ UNCHANGED <<pre, prev>>
    /\ UNCHANGED <<cacheVars, partVars>>

\* delete metadata[id]; await writeMetadataFile(status, metadata); return
DeleteWrite(p) ==
    /\ pc[p] = "d_write"
    /\ \E outcome \in WriteOutcomes :
         /\ metaFile' = writeMetadataFile(frame[p].status,
                                          Remove(frame[p].buf, op[p].id), outcome)
         /\ IF outcome = "ok" THEN Finish(p, "ok") /\ UNCHANGED frame
            ELSE Throw(p, "writeMetadataFile")
    /\ UNCHANGED <<pdfFile, op>>
    /\ UNCHANGED <<pre, prev>>
    /\ UNCHANGED <<cacheVars, partVars>>

(***************************************************************************)
(* updatePaperMetadata: for (const status of ['unread', 'read']) ...       *)
(***************************************************************************)
\* Mutant of UpdateRead: an identifier found in neither collection is an error.
UpdateReadThrows(p) ==
    /\ pc[p] = "u_read"
    /\ LET m == readMetadataFile(frame[p].status)
       IN  IF Has(m, op[p].id)
           THEN /\ frame' = [frame EXCEPT ![p].buf = m]
                /\ pc' = [pc EXCEPT ![p] = "u_write"]
                /\ UNCHANGED result
           ELSE IF frame[p].status = "unread"
           THEN /\ frame' = [frame EXCEPT ![p].status = "read"]
                /\ UNCHANGED <<pc, result>>
           ELSE /\ Finish(p, "error")
                /\ UNCHANGED frame
    /\ UNCHANGED <<metaFile, pdfFile, op>>
    /\ UNCHANGED <<pre, prev>>
    /\ UNCHANGED <<cacheVars, partVars>>

\* let metadataFile = await readMetadataFile(status); if (metadataFile[id]) ...
UpdateRead(p) ==
    /\ pc[p] = "u_read"
    /\ LET m == readMetadataFile(frame[p].status)
       IN  IF Has(m, op[p].id)
           THEN /\ frame' = [frame EXCEPT ![p].buf = m]
                /\ pc' = [pc EXCEPT ![p] = "u_write"]
                /\ UNCHANGED result
           ELSE IF frame[p].status = "unread"
           THEN /\ frame' = [frame EXCEPT ![p].status = "read"]
                /\ UNCHANGED <<pc, result>>
           ELSE /\ Finish(p, "ok")
                /\ UNCHANGED frame
    /\ UNCHANGED <<metaFile, pdfFile, op>>
    /\ UNCHANGED <<pre, prev>>
    /\ UNCHANGED <<cacheVars, partVars>>

\* Mutant of UpdateWrite: the update is applied to the mapping as the file
\* holds it at the time of the write.
UpdateWriteFresh(p) ==
    /\ pc[p] = "u_write"
    /\ \E outcome \in WriteOutcomes :
         LET now_ == IF Has(readMetadataFile(frame[p].status), op[p].id)
                     THEN readMetadataFile(frame[p].status) ELSE frame[p].buf
             m == Put(now_, op[p].id, updateFn(op[p], now_[op[p].id]))
         IN  /\ metaFile' = writeMetadataFile(frame[p].status, m, outcome)
             /\ IF outcome = "ok" THEN Finish(p, "ok") /\ UNCHANGED frame
                ELSE Throw(p, "writeMetadataFile")
    /\ UNCHANGED <<pdfFile, op>>
    /\ UNCHANGED <<pre, prev>>
    /\ UNCHANGED <<cacheVars, partVars>>

\* metadataFile[id] = updateFn(metadataFile[id]);
\* await writeMetadataFile(status, metadataFile); return
UpdateWrite(p) ==
    /\ pc[p] = "u_write"
    /\ \E outcome \in WriteOutcomes :
         LET m == Put(frame[p].buf, op[p].id, updateFn(op[p], frame[p].buf[op[p].id]))
         IN  /\ metaFile' = writeMetadataFile(frame[p].status, m, outcome)
             /\ IF outcome = "ok" THEN Finish(p, "ok") /\ UNCHANGED frame
                ELSE Throw(p, "writeMetadataFile")
    /\ UNCHANGED <<pdfFile, op>>
    /\ UNCHANGED <<pre, prev>>
    /\ UNCHANGED <<cacheVars, partVars>>

(***************************************************************************)
(* initializeLocalFileStorage: for (const metaPath of [unread, read]) ...  *)
(* (ensureDirectories has made the directories before the loop.)           *)
(***************************************************************************)
\* fs.promises.writeFile(metaPath, '{}', 'utf-8'), by outcome.
writeEmptyObject(status, outcome) == writeMetadataFile(status, EmptyMap, outcome)

\* The loop goes on to the next metadata file, or the function returns.
NextMetaPath(p) ==
    IF frame[p].status = "unread"
    THEN /\ frame' = [frame EXCEPT ![p].status = "read"]
         /\ pc' = [pc EXCEPT ![p] = "i_access"]
         /\ UNCHANGED result
    ELSE /\ Finish(p, "ok")
         /\ UNCHANGED frame

\* await fs.promises.access(metaPath)
InitAccess(p) ==
    /\ pc[p] = "i_access"
    /\ pc' = [pc EXCEPT ![p] =
                IF metaFile[frame[p].status].kind = "missing" THEN "i_create" ELSE "i_read"]
    /\ UNCHANGED <<metaFile, pdfFile, op, frame, result>>
    /\ UNCHANGED <<pre, prev>>
    /\ UNCHANGED <<cacheVars, partVars>>

\* catch { await fs.promises.writeFile(metaPath, '{}', 'utf-8') }: a failure
\* lands in the outer catch.
InitCreate(p) ==
    /\ pc[p] = "i_create"
    /\ \E outcome \in WriteOutcomes :
         /\ metaFile' = writeEmptyObject(frame[p].status, outcome)
         /\ pc' = [pc EXCEPT ![p] = IF outcome = "ok" THEN "i_read" ELSE "i_reset"]
    /\ UNCHANGED <<pdfFile, op, frame, result>>
    /\ UNCHANGED <<pre, prev>>
    /\ UNCHANGED <<cacheVars, partVars>>

\* const content = await fs.promises.readFile(metaPath, 'utf-8'); then the
\* test for an empty content and JSON.parse(content). A rejected read and a
\* failed parse both land in the outer catch.
InitRead(p) ==
    /\ pc[p] = "i_read"
    /\ \E outcome \in IoOutcomes :
         LET kind == metaFile[frame[p].status].kind
         IN  IF outcome = "ok" /\ kind = "empty"
             THEN pc' = [pc EXCEPT ![p] = "i_blank"] /\ UNCHANGED <<frame, result>>
             ELSE IF outcome = "ok" /\ kind = "json"
             THEN NextMetaPath(p)
             ELSE pc' = [pc EXCEPT ![p] = "i_reset"] /\ UNCHANGED <<frame, result>>
    /\ UNCHANGED <<metaFile, pdfFile, op>>
    /\ UNCHANGED <<pre, prev>>
    /\ UNCHANGED <<cacheVars, partVars>>

\* if (content.trim() === '') await fs.promises.writeFile(metaPath, '{}')
InitBlank(p) ==
    /\ pc[p] = "i_blank"
    /\ \E outcome \in WriteOutcomes :
         /\ metaFile' = writeEmptyObject(frame[p].status, outcome)
         /\ IF outcome = "ok" THEN NextMetaPath(p)
            ELSE pc' = [pc EXCEPT ![p] = "i_reset"] /\ UNCHANGED <<frame, result>>
    /\ UNCHANGED <<pdfFile, op>>
    /\ UNCHANGED <<pre, prev>>
    /\ UNCHANGED <<cacheVars, partVars>>

\* catch (e) { await fs.promises.writeFile(metaPath, '{}', 'utf-8') }: this
\* write is not guarded, its rejection is the function's.
InitReset(p) ==
    /\ pc[p] = "i_reset"
    /\ \E outcome \in WriteOutcomes :
         /\ metaFile' = writeEmptyObject(frame[p].status, outcome)
         /\ IF outcome = "ok" THEN NextMetaPath(p) ELSE Throw(p, "writeFile")
    /\ UNCHANGED <<pdfFile, op>>
    /\ UNCHANGED <<pre, prev>>
    /\ UNCHANGED <<cacheVars, partVars>>

(***************************************************************************)
(* utils/extractPartsFromResult.ts.  A string is a sequence of characters, *)
(* indexed from 0 as in the code.  The literal data:image/ of the pattern  *)
(* is one symbol of the alphabet: no proper prefix of it is a suffix of    *)
(* it, so its occurrences in a string never overlap.                       *)
(***************************************************************************)
DataImage == "data:image/"
\* A character that `.` does not match.
LineTerminator == "\n"

\* result[n], "" past the end
charAt(str, n) == IF n >= 0 /\ n < Len(str) THEN str[n + 1] ELSE ""
\* result.slice(start, end)
slice(str, start, end) == SubSeq(str, start + 1, end)
\* The least element of a non-empty set of indices.
Least(S) == CHOOSE n \in S : \A k \in S : n <= k

\* regex.exec found nothing.
null == [index |-> -1]

\* [^)]+\) read from index n: the index of the first ")" at or after n, if at
\* least one character stands between n and it; -1 if the pattern fails.
ClosingParen(str, n) ==
    LET closers == {k \in n..(Len(str) - 1) : charAt(str, k) = ")"}
    IN  IF closers # {} /\ Least(closers) > n THEN Least(closers) ELSE -1

\* Mutant of AltEnds: `.` matches line terminators too.
AltEndsDotAll(str, i) ==
    {j \in (i + 2)..(Len(str) - 1) :
        /\ charAt(str, j) = "]"
        /\ charAt(str, j + 1) = "("
        /\ charAt(str, j + 2) = DataImage
        /\ ClosingParen(str, j + 3) # -1}

\* After `![` at index i: the indices j at which .*? may stop, that is, no
\* line terminator in between and \]\((data:image\/[^)]+)\) matches at j.
AltEnds(str, i) ==
    {j \in (i + 2)..(Len(str) - 1) :
        /\ \A n \in (i + 2)..(j - 1) : charAt(str, n) # LineTerminator
        /\ charAt(str, j) = "]"
        /\ charAt(str, j + 1) = "("
        /\ charAt(str, j + 2) = DataImage
        /\ ClosingParen(str, j + 3) # -1}

\* The match of /!\[.*?\]\((data:image\/[^)]+)\)/ that starts at index i,
\* null if there is none: .*? is lazy, it stops at the first index it may.
matchAt(str, i) ==
    IF charAt(str, i) = "!" /\ charAt(str, i + 1) = "[" /\ AltEnds(str, i) # {}
    THEN LET j == Least(AltEnds(str, i))
             k == ClosingParen(str, j + 2 + 1)
         IN  [index |-> i, group1 |-> slice(str, j + 2, k), lastIndex |-> k + 1]
    ELSE null

\* regex.exec(result) with regex.lastIndex = lastIndex: the leftmost match.
exec(str, lastIndex) ==
    LET starts == {i \in lastIndex..(Len(str) - 1) : matchAt(str, i) # null}
    IN  IF starts = {} THEN null ELSE matchAt(str, Least(starts))

TextPart(content) == [type |-> "text", content |-> content]
ImagePart(data) == [type |-> "image", data |-> data]

\* Mutant of pushText: the span before a match is pushed even when empty.
pushTextAlways(ps, str, lastIndex, index) ==
    Append(ps, TextPart(slice(str, lastIndex, index)))

\* if (match.index > lastIndex) parts.push({type: "text", content: ...})
pushText(ps, str, lastIndex, index) ==
    IF index > lastIndex
    THEN Append(ps, TextPart(slice(str, lastIndex, index)))
    ELSE ps

\* if (match[1]) parts.push({type: "image", data: match[1]})
pushImage(ps, match) ==
    IF match.group1 # <<>> THEN Append(ps, ImagePart(match.group1)) ELSE ps

RECURSIVE WhileExec(_, _, _)
\* while ((match = regex.exec(result))) { ...; lastIndex = regex.lastIndex }
WhileExec(str, lastIndex, ps) ==
    LET match == exec(str, lastIndex)
    IN  IF match = null
        THEN [parts |-> ps, lastIndex |-> lastIndex]
        ELSE WhileExec(str, match.lastIndex,
                       pushImage(pushText(ps, str, lastIndex, match.index), match))

\* if (lastIndex < result.length) parts.push({type: "text", content: ...})
pushRest(ps, str, lastIndex) ==
    IF lastIndex < Len(str)
    THEN Append(ps, TextPart(slice(str, lastIndex, Len(str))))
    ELSE ps

extractPartsFromResult(str) ==
    LET loop == WhileExec(str, 0, <<>>)
    IN  pushRest(loop.parts, str, loop.lastIndex)

\* const parts = extractPartsFromResult(markdown)
ExtractParts ==
    /\ xpc = "called"
    /\ parts' = extractPartsFromResult(markdown)
    /\ xpc' = "returned"
    /\ UNCHANGED markdown
    /\ UNCHANGED <<repoVars, cacheVars>>

(***************************************************************************)
(* The conversion cache of docling.ts.  The file holds two functions:      *)
(* pdfToMarkdown (variant "A"), which reloads the index from disk on every *)
(* call, and pdf_to_markdown (variant "B"), which keeps it in the          *)
(* module-level PDF_CACHE, loaded when the module is loaded.  A run uses   *)
(* one of them.                                                            *)
(***************************************************************************)
MAX_CACHE_SIZE == 5

\* Bounds of a conversion run: the requests made, and the disturbances from
\* outside the program (a failing file-system call, an artifact deleted
\* out-of-band).
MaxRequests == 2
MaxDisturbances == 1

CProcs == {"r1", "r2"}
SeqCProcs == {"r1"}

\* Source paths, as lists of segments.
Doc(i) == <<"docs", CASE i = 1 -> "a.pdf" [] i = 2 -> "b.pdf" [] i = 3 -> "c.pdf"
                      [] i = 4 -> "d.pdf" [] i = 5 -> "e.pdf" [] i = 6 -> "f g.pdf">>
\* The paths a request may name: the oldest cached document under a
\* spelling that is not normalized, the newest cached one, a new one.
RequestPaths == {<<"docs", ".", "a.pdf">>, Doc(5), Doc(6)}

\* path.normalize, on the spellings above: "." segments are dropped.
Normalize(path) == LET NotDot(seg) == seg # "." IN SelectSeq(path, NotDot)

\* path.basename(normalizedPath).replace(/[^a-zA-Z0-9.-]/g, '_')
SafeName(path) ==
    LET base == path[Len(path)]
    IN  IF base = "f g.pdf" THEN "f_g.pdf" ELSE base

\* path.join(CACHE_DIR, `docling-${safeName}-${uniqueId}` + '.md'): uniqueId is
\* Date.now() followed by random digits, never the same twice.
OutputPath(path, uniqueId) == [name |-> SafeName(path), uid |-> uniqueId]

\* What the converter may leave at the output path.
ArtifactKinds == {"file", "dir", "dirNoMd"}
Artifact(kind, path) == [kind |-> kind, md |-> path]

\* The converter writes artifact a at output path o.
Written(files, o, a) == [x \in DOMAIN files \cup {o} |-> IF x = o THEN a ELSE files[x]]

\* History: path p was used (inserted, or hit) at time t.
Used(lastUse, p, t) == [x \in DOMAIN lastUse \cup {p} |-> IF x = p THEN t ELSE lastUse[x]]

\* fs.existsSync(outputPath)
existsSync(o) == o \in DOMAIN artifacts

\* Mutant of rmSync: nothing is removed.
rmSyncSkipped(files, o, outcome) == files
\* fs.rmSync(outputPath, {recursive: true, force: true}) inside try/catch: the
\* artifact is gone, or the call throws and the error is ignored.
rmSync(files, o, outcome) ==
    IF outcome = "ok" THEN [x \in DOMAIN files \ {o} |-> files[x]] ELSE files

\* Mutant of saveCache: nothing is written.
saveCacheSkipped(file, cache, outcome) == file
\* saveCache: writeFileSync inside try/catch; an error is logged and dropped.
saveCache(file, cache, outcome) ==
    CASE outcome = "ok"   -> [kind |-> "json", entries |-> cache]
      [] outcome = "eio"  -> file
      [] outcome = "torn" -> [kind |-> "corrupt", entries |-> <<>>]

\* Array.findIndex(entry => path.normalize(entry.pdfPath) === normalizedPath),
\* with 0 for JavaScript's -1.
RECURSIVE FindIndexFrom(_, _, _)
FindIndexFrom(cache, normalizedPath, i) ==
    IF i > Len(cache) THEN 0
    ELSE IF Normalize(cache[i].pdfPath) = normalizedPath THEN i
    ELSE FindIndexFrom(cache, normalizedPath, i + 1)
\* Mutant of findIndex: no entry is ever found.
findIndexNever(cache, normalizedPath) == 0
findIndex(cache, normalizedPath) == FindIndexFrom(cache, normalizedPath, 1)

\* Mutant of Splice: the entry stays.
SpliceNothing(cache, i) == cache
\* cache.splice(i, 1)
Splice(cache, i) == SubSeq(cache, 1, i - 1) \o SubSeq(cache, i + 1, Len(cache))
\* Mutant of Unshift: the entry goes to the back.
UnshiftAtBack(cache, entry) == Append(cache, entry)
\* cache.unshift(entry)
Unshift(cache, entry) == <<entry>> \o cache
\* Mutant of NeedsEviction: the size test is off by one.
NeedsEvictionLate(cache) == Len(cache) > MAX_CACHE_SIZE + 1
\* if (cache.length > MAX_CACHE_SIZE)
NeedsEviction(cache) == Len(cache) > MAX_CACHE_SIZE
\* cache.pop(): the list without its last entry
Pop(cache) == SubSeq(cache, 1, Len(cache) - 1)
\* cache.filter(entry => fs.existsSync(entry.outputPath))
ExistingUnchecked(cache) == cache
Existing(cache) == LET Exists(e) == existsSync(e.outputPath) IN SelectSeq(cache, Exists)

Entries(cache) == {cache[i] : i \in 1..Len(cache)}

NoEntry == [pdfPath |-> <<>>, outputPath |-> OutputPath(<<"">>, 0), timestamp |-> 0]
NoLocals == [pdfCache |-> <<>>, cachedEntry |-> NoEntry, tempFilePath |-> OutputPath(<<"">>, 0),
             data |-> <<>>, failed |-> FALSE, evictedEntry |-> NoEntry,
             cleanupError |-> FALSE, invoked |-> FALSE]
NoReturn == [how |-> "none", data |-> <<>>]
\* History kept per request: the index and the artifacts as the call found
\* them. (hist also keeps: the entries purged as stale, whether an index write
\* has failed, how the request's last index write went, and when each path
\* was last used.)
NoCallState == [index |-> <<>>, artifacts |-> <<>>]

\* The index a request works on: the list initializeCache returned (A), the
\* module-level PDF_CACHE (B).
Working(r) == IF variant = "A" THEN cloc[r].pdfCache ELSE PDF_CACHE

\* Synchronous code runs to completion: while a request is between two
\* awaits, no other request of the process runs.
SyncPcs == {"c_init", "c_lookup", "c_readHit", "c_cleanup", "c_insert"}
ThreadFree(r) == \A q \in CProcs \ {r} : cpc[q] \notin SyncPcs

\* The outcomes of a guarded file-system call that the budget still allows.
Faults(outcomes) == IF budget.disturbances > 0 THEN outcomes ELSE {"ok"}
Failed(outcomes) == Cardinality({i \in DOMAIN outcomes : outcomes[i] # "ok"})
Spend(b, outcomes) == [b EXCEPT !.disturbances = @ - Failed(outcomes)]
SaveOutcomes == {"ok", "eio", "torn"}
RmOutcomes == {"ok", "eperm"}

\* A caller invokes the conversion of pdfPath.
Request(r, pdfPath) ==
    /\ cpc[r] = "idle"
    /\ ThreadFree(r)
    /\ budget.requests > 0
    /\ budget' = [budget EXCEPT !.requests = @ - 1]
    /\ creq' = [creq EXCEPT ![r] = pdfPath]
    /\ cloc' = [cloc EXCEPT ![r] = NoLocals]
    /\ cret' = [cret EXCEPT ![r] = NoReturn]
    /\ cpc' = [cpc EXCEPT ![r] = IF variant = "A" THEN "c_init" ELSE "c_lookup"]
    /\ hist' = [hist EXCEPT
          !.atCall[r] =
              [index |-> IF variant = "A"
                         THEN (IF cacheFile.kind = "json" THEN cacheFile.entries ELSE <<>>)
                         ELSE PDF_CACHE,
               artifacts |-> artifacts],
          !.saved[r] = "none",
          !.overlap = @ \/ \E q \in CProcs \ {r} : cpc[q] # "idle"]
    /\ UNCHANGED <<variant, cacheFile, PDF_CACHE, artifacts, now>>
    /\ UNCHANGED <<repoVars, partVars>>

\* initializeCache (A): load the index, drop the entries whose output is
\* gone, write the index back; an unreadable index is an empty one.
initializeCache(r) ==
    /\ cpc[r] = "c_init"
    /\ ThreadFree(r)
    /\ IF cacheFile.kind = "json"
       THEN \E outcome \in Faults(SaveOutcomes) :
              LET cache == Existing(cacheFile.entries)
              IN  /\ cloc' = [cloc EXCEPT ![r].pdfCache = cache]
                  /\ cacheFile' = saveCache(cacheFile, cache, outcome)
                  /\ budget' = Spend(budget, <<outcome>>)
                  /\ hist' = [hist EXCEPT
                        !.purged = @ \cup (Entries(cacheFile.entries) \ Entries(cache)),
                        !.saveLost = @ \/ outcome # "ok",
                        !.saved[r] = IF outcome = "ok" THEN "ok" ELSE "failed"]
       ELSE /\ cloc' = [cloc EXCEPT ![r].pdfCache = <<>>]
            /\ UNCHANGED <<cacheFile, budget, hist>>
    /\ cpc' = [cpc EXCEPT ![r] = "c_lookup"]
    /\ UNCHANGED <<variant, PDF_CACHE, artifacts, now, creq, cret>>
    /\ UNCHANGED <<repoVars, partVars>>

\* The module-level code of pdf_to_markdown's version (B), run when the
\* application starts: the same load, into PDF_CACHE; its write is not guarded
\* apart from the enclosing try, whose catch empties PDF_CACHE.
ModuleLoad ==
    /\ variant = "B"
    /\ \A r \in CProcs : cpc[r] = "idle"
    /\ IF cacheFile.kind = "json"
       THEN \E outcome \in Faults(SaveOutcomes) :
              LET cache == Existing(cacheFile.entries)
              IN  /\ PDF_CACHE' = IF outcome = "ok" THEN cache ELSE <<>>
                  /\ cacheFile' = saveCache(cacheFile, cache, outcome)
                  /\ budget' = Spend(budget, <<outcome>>)
                  /\ hist' = [hist EXCEPT
                        !.purged = @ \cup (Entries(cacheFile.entries) \ Entries(cache)),
                        !.saveLost = @ \/ outcome # "ok"]
       ELSE /\ PDF_CACHE' = <<>>
            /\ UNCHANGED <<cacheFile, budget, hist>>
    /\ UNCHANGED <<variant, artifacts, now, cpc, creq, cloc, cret>>
    /\ UNCHANGED <<repoVars, partVars>>

\* The working index of request r becomes cache.
SetWorking(r, cache, locals) ==
    /\ cloc' = [cloc EXCEPT ![r] =
                  IF variant = "A" THEN [locals EXCEPT !.pdfCache = cache] ELSE locals]
    /\ PDF_CACHE' = IF variant = "A" THEN PDF_CACHE ELSE cache

\* From the findIndex to the saved index of a hit, or to the call of
\* exec(command), which starts the converter.
Lookup(r) ==
    /\ cpc[r] = "c_lookup"
    /\ ThreadFree(r)
    /\ LET normalizedPath == Normalize(creq[r])
           cache == Working(r)
           cacheIndex == findIndex(cache, normalizedPath)
       IN  IF cacheIndex # 0 /\ existsSync(cache[cacheIndex].outputPath)
           THEN \* a hit: the entry moves to the front with a fresh timestamp
                \E outcome \in Faults(SaveOutcomes) :
                  LET cachedEntry == [cache[cacheIndex] EXCEPT !.timestamp = now + 1]
                      moved == Unshift(Splice(cache, cacheIndex), cachedEntry)
                  IN  /\ SetWorking(r, moved, [cloc[r] EXCEPT !.cachedEntry = cachedEntry])
                      /\ cacheFile' = saveCache(cacheFile, moved, outcome)
                      /\ budget' = Spend(budget, <<outcome>>)
                      /\ hist' = [hist EXCEPT
                            !.lastUse = Used(@, normalizedPath, now + 1),
                            !.saveLost = @ \/ outcome # "ok",
                            !.saved[r] = IF outcome = "ok" THEN "ok" ELSE "failed"]
                      /\ cpc' = [cpc EXCEPT ![r] = "c_readHit"]
           ELSE IF cacheIndex # 0
           THEN \* the cached output is gone: the entry is dropped, then a miss
                \E outcome \in Faults(SaveOutcomes) :
                  LET purged == Splice(cache, cacheIndex)
                  IN  /\ SetWorking(r, purged,
                            [cloc[r] EXCEPT !.tempFilePath = OutputPath(normalizedPath, now + 1),
                                            !.invoked = TRUE])
                      /\ cacheFile' = saveCache(cacheFile, purged, outcome)
                      /\ budget' = Spend(budget, <<outcome>>)
                      /\ hist' = [hist EXCEPT
                            !.purged = @ \cup {cache[cacheIndex]},
                            !.saveLost = @ \/ outcome # "ok",
                            !.saved[r] = IF outcome = "ok" THEN "ok" ELSE "failed"]
                      /\ cpc' = [cpc EXCEPT ![r] = "c_exec"]
           ELSE /\ SetWorking(r, cache,
                      [cloc[r] EXCEPT !.tempFilePath = OutputPath(normalizedPath, now + 1),
                                      !.invoked = TRUE])
                /\ cpc' = [cpc EXCEPT ![r] = "c_exec"]
                /\ UNCHANGED <<cacheFile, budget, hist>>
    /\ now' = now + 1
    /\ UNCHANGED <<variant, artifacts, creq, cret>>
    /\ UNCHANGED <<repoVars, partVars>>

\* The Markdown of an artifact: the file itself, or the first .md file of the
\* directory.
HasMarkdown(a) == a.kind \in {"file", "dir"}

\* A hit reads the cached output and returns it; a directory without a .md
\* file throws.
ReadCached(r) ==
    /\ cpc[r] = "c_readHit"
    /\ ThreadFree(r)
    /\ LET a == artifacts[cloc[r].cachedEntry.outputPath]
       IN  cret' = [cret EXCEPT ![r] =
                IF HasMarkdown(a) THEN [how |-> "ok", data |-> a.md]
                ELSE [how |-> "error", data |-> <<>>]]
    /\ cpc' = [cpc EXCEPT ![r] = "done"]
    /\ UNCHANGED <<variant, cacheFile, PDF_CACHE, artifacts, now, creq, cloc, hist, budget>>
    /\ UNCHANGED <<repoVars, partVars>>

\* What the docling command may do: its exit code and what it leaves at the
\* output path.
ExecOutcomes ==
    [exit : {0}, left : ArtifactKinds \cup {"nothing"}]
    \cup [exit : {1}, left : {"nothing", "file"}]

\* The converter exits, and the rest of the tryCatch body runs: stat the
\* output, find the .md file, read it.
Exec(r) ==
    /\ cpc[r] = "c_exec"
    /\ ThreadFree(r)
    /\ \E outcome \in ExecOutcomes :
         LET tempFilePath == cloc[r].tempFilePath
             written == IF outcome.left = "nothing" THEN artifacts
                        ELSE Written(artifacts, tempFilePath,
                                     Artifact(outcome.left, Normalize(creq[r])))
             failed == \/ outcome.exit # 0
                       \/ outcome.left = "nothing"
                       \/ ~HasMarkdown(written[tempFilePath])
         IN  /\ artifacts' = written
             /\ cloc' = [cloc EXCEPT ![r].failed = failed,
                                     ![r].data = IF failed THEN <<>>
                                                 ELSE written[tempFilePath].md]
             /\ cpc' = [cpc EXCEPT ![r] = IF failed THEN "c_cleanup" ELSE "c_insert"]
    /\ UNCHANGED <<variant, cacheFile, PDF_CACHE, now, creq, cret, hist, budget>>
    /\ UNCHANGED <<repoVars, partVars>>

\* Mutant of Cleanup: the error is rethrown without the removal.
CleanupForgotten(r) ==
    /\ cpc[r] = "c_cleanup"
    /\ ThreadFree(r)
    /\ cret' = [cret EXCEPT ![r] = [how |-> "error", data |-> <<>>]]
    /\ cpc' = [cpc EXCEPT ![r] = "done"]
    /\ UNCHANGED <<variant, cacheFile, PDF_CACHE, artifacts, now, creq, cloc, hist, budget>>
    /\ UNCHANGED <<repoVars, partVars>>

\* if (result.error): remove what was written, ignoring a failure to, and
\* rethrow.
Cleanup(r) ==
    /\ cpc[r] = "c_cleanup"
    /\ ThreadFree(r)
    /\ IF existsSync(cloc[r].tempFilePath)
       THEN \E outcome \in Faults(RmOutcomes) :
              /\ artifacts' = rmSync(artifacts, cloc[r].tempFilePath, outcome)
              /\ budget' = Spend(budget, <<outcome>>)
              /\ cloc' = [cloc EXCEPT ![r].cleanupError = outcome # "ok"]
       ELSE UNCHANGED <<artifacts, budget, cloc>>
    /\ cret' = [cret EXCEPT ![r] = [how |-> "error", data |-> <<>>]]
    /\ cpc' = [cpc EXCEPT ![r] = "done"]
    /\ UNCHANGED <<variant, cacheFile, PDF_CACHE, now, creq, hist>>
    /\ UNCHANGED <<repoVars, partVars>>

\* The successful conversion goes to the front of the index; past
\* MAX_CACHE_SIZE the last entry is popped and its output removed (a failure
\* to remove is ignored); the index is saved.
Insert(r) ==
    /\ cpc[r] = "c_insert"
    /\ ThreadFree(r)
    /\ \E outcomes \in Faults(RmOutcomes) \X Faults(SaveOutcomes) :
         LET normalizedPath == Normalize(creq[r])
             added == Unshift(Working(r),
                              [pdfPath |-> normalizedPath,
                               outputPath |-> cloc[r].tempFilePath,
                               timestamp |-> now + 1])
             evict == NeedsEviction(added)
             evictedEntry == IF evict THEN added[Len(added)] ELSE NoEntry
             kept == IF evict THEN Pop(added) ELSE added
             remove == evict /\ existsSync(evictedEntry.outputPath)
         IN  /\ Failed(outcomes) <= budget.disturbances
             /\ ~remove => outcomes[1] = "ok"
             /\ artifacts' = IF remove
                             THEN rmSync(artifacts, evictedEntry.outputPath, outcomes[1])
                             ELSE artifacts
             /\ SetWorking(r, kept,
                   [cloc[r] EXCEPT !.evictedEntry = evictedEntry,
                                   !.cleanupError = remove /\ outcomes[1] # "ok"])
             /\ cacheFile' = saveCache(cacheFile, kept, outcomes[2])
             /\ budget' = Spend(budget, outcomes)
             /\ hist' = [hist EXCEPT
                   !.lastUse = Used(@, normalizedPath, now + 1),
                   !.saveLost = @ \/ outcomes[2] # "ok",
                   !.saved[r] = IF outcomes[2] = "ok" THEN "ok" ELSE "failed",
                   !.converted = @ \cup {cloc[r].tempFilePath}]
             /\ cret' = [cret EXCEPT ![r] = [how |-> "ok", data |-> cloc[r].data]]
    /\ now' = now + 1
    /\ cpc' = [cpc EXCEPT ![r] = "done"]
    /\ UNCHANGED <<variant, creq>>
    /\ UNCHANGED <<repoVars, partVars>>

\* The caller has the Markdown, or the error.
CReturn(r) ==
    /\ cpc[r] = "done"
    /\ cpc' = [cpc EXCEPT ![r] = "idle"]
    /\ cloc' = [cloc EXCEPT ![r] = NoLocals]
    /\ cret' = [cret EXCEPT ![r] = NoReturn]
    /\ hist' = [hist EXCEPT !.atCall[r] = NoCallState, !.saved[r] = "none"]
    /\ UNCHANGED <<variant, cacheFile, PDF_CACHE, artifacts, now, creq, budget>>
    /\ UNCHANGED <<repoVars, partVars>>

\* Something outside the program deletes a conversion output, while no
\* synchronous code of the program is running.
OutOfBandDelete(o) ==
    /\ o \in DOMAIN artifacts
    /\ \A r \in CProcs : cpc[r] \in {"idle", "c_exec"}
    /\ budget.disturbances > 0
    /\ budget' = [budget EXCEPT !.disturbances = @ - 1]
    /\ artifacts' = [x \in DOMAIN artifacts \ {o} |-> artifacts[x]]
    /\ UNCHANGED <<variant, cacheFile, PDF_CACHE, now, cpc, creq, cloc, cret, hist>>
    /\ UNCHANGED <<repoVars, partVars>>

(***************************************************************************)
(* Initial states and the sequential specification.                        *)
(***************************************************************************)
InitProcs ==
    /\ pc = [p \in Procs |-> "idle"]
    /\ op = [p \in Procs |-> NoOp]
    /\ frame = [p \in Procs |-> NoFrame]
    /\ pre = [p \in Procs |-> NoSnapshot]
    /\ result = [p \in Procs |-> "none"]
    /\ prev = NoPrev

(***************************************************************************)
(* CacheSpec: conversion requests, one at a time.                          *)
(***************************************************************************)
\* The index a run starts from: so many earlier conversions, of Doc(1) first
\* and Doc(n) last, most recently used first, every output still on disk
\* unless the oldest one has been deleted since.
InitSizes == {0, 5}
InitEntry(i) == [pdfPath |-> Doc(i), outputPath |-> OutputPath(Doc(i), i), timestamp |-> i]
InitIndex(n) == [k \in 1..n |-> InitEntry(n + 1 - k)]

CacheIdle ==
    /\ variant = "A"
    /\ cacheFile = [kind |-> "missing", entries |-> <<>>]
    /\ PDF_CACHE = <<>>
    /\ artifacts = <<>>
    /\ now = 0
    /\ cpc = [r \in CProcs |-> "idle"]
    /\ creq = [r \in CProcs |-> <<>>]
    /\ cloc = [r \in CProcs |-> NoLocals]
    /\ cret = [r \in CProcs |-> NoReturn]
    /\ hist = [atCall |-> [r \in CProcs |-> NoCallState], purged |-> {},
               saveLost |-> FALSE, saved |-> [r \in CProcs |-> "none"],
               lastUse |-> <<>>, overlap |-> FALSE, converted |-> {}]
    /\ budget = [requests |-> 0, disturbances |-> 0]

RepoIdle ==
    /\ metaFile = [s \in Status |-> MissingFile]
    /\ pdfFile = [s \in Status |-> [i \in Ids |-> NoFile]]
    /\ InitProcs

\* The cache as earlier runs left it, before the first of the given number
\* of requests.
CacheStart(requests) ==
    /\ variant \in {"A", "B"}
    /\ \E n \in InitSizes :
         /\ cacheFile = IF n = 0 THEN [kind |-> "missing", entries |-> <<>>]
                        ELSE [kind |-> "json", entries |-> InitIndex(n)]
         /\ PDF_CACHE = IF variant = "B" THEN InitIndex(n) ELSE <<>>
         /\ \E gone \in {0, 1} :
            artifacts = [o \in {InitEntry(i).outputPath : i \in 1..n \ {gone}} |->
                           LET i == o.uid
                           IN  Artifact(IF i % 2 = 1 THEN "file" ELSE "dir", Doc(i))]
         /\ now = n
         /\ hist = [atCall |-> [r \in CProcs |-> NoCallState], purged |-> {},
                    saveLost |-> FALSE, saved |-> [r \in CProcs |-> "none"],
                    lastUse |-> [p \in {Doc(i) : i \in 1..n} |->
                                   CHOOSE i \in 1..n : Doc(i) = p],
                    overlap |-> FALSE,
                    converted |-> {InitEntry(i).outputPath : i \in 1..n}]
    /\ cpc = [r \in CProcs |-> "idle"]
    /\ creq = [r \in CProcs |-> <<>>]
    /\ cloc = [r \in CProcs |-> NoLocals]
    /\ cret = [r \in CProcs |-> NoReturn]
    /\ budget = [requests |-> requests, disturbances |-> MaxDisturbances]
    /\ RepoIdle
    /\ PartsIdle

CacheInit == CacheStart(MaxRequests)

CStep(r) ==
    \/ initializeCache(r)
    \/ Lookup(r)
    \/ ReadCached(r)
    \/ Exec(r)
    \/ Cleanup(r)
    \/ Insert(r)
    \/ CReturn(r)

CacheNext ==
    \/ \E r \in SeqCProcs : \E pdfPath \in RequestPaths : Request(r, pdfPath)
    \/ \E r \in SeqCProcs : CStep(r)
    \/ ModuleLoad
    \/ \E o \in DOMAIN artifacts : OutOfBandDelete(o)

CacheSpec == CacheInit /\ [][CacheNext]_vars

\* ConcSpec: one request per caller, the second one being made while the
\* converter of the first is running (the await of exec is where a request
\* yields).
ConcInit == CacheStart(Cardinality(CProcs))

ConcNext ==
    \/ \E r \in CProcs : \E pdfPath \in RequestPaths : Request(r, pdfPath)
    \/ \E r \in CProcs : CStep(r)
    \/ ModuleLoad

ConcSpec == ConcInit /\ [][ConcNext]_vars

\* A metadata file holding mapping m: an empty collection's file may also be
\* missing (never initialised).
FilesOf(m) == IF DOMAIN m = {} THEN {JsonFile(m), MissingFile} ELSE {JsonFile(m)}

\* A store as downloads leave it: every identifier in at most one
\* collection, its PDF beside its record or already gone.
InitRepo ==
    /\ \E where \in [Ids -> {"unread", "read", "none"}] :
       \E gone \in SUBSET Ids :
          /\ metaFile \in [Status -> UNION {FilesOf(m) : m \in
                {[i \in S |-> NewMetadata(i)] : S \in SUBSET Ids}}]
          /\ \A s \in Status : DOMAIN metaFile[s].map = {j \in Ids : where[j] = s}
          /\ pdfFile = [s \in Status |-> [i \in Ids |->
                IF where[i] = s /\ i \notin gone THEN PdfBytes(i) ELSE NoFile]]
    /\ InitProcs

Init == InitRepo /\ CacheIdle /\ PartsIdle

Step(p) ==
    \/ MarkReadSrc(p)
    \/ MarkMkdir(p)
    \/ MarkReadPdf(p)
    \/ MarkWritePdf(p)
    \/ MarkUnlink(p)
    \/ MarkWriteSrc(p)
    \/ MarkReadDst(p)
    \/ MarkWriteDst(p)
    \/ DeleteRead(p)
    \/ DeleteUnlink(p)
    \/ DeleteWrite(p)
    \/ UpdateRead(p)
    \/ UpdateWrite(p)

Next ==
    \/ \E p \in SeqProcs : \E o \in Ops : Call(p, o)
    \/ \E p \in SeqProcs : Step(p)
    \/ \E p \in SeqProcs : Return(p)

\* The operations run one at a time, in any order, with any arguments.
Spec == Init /\ [][Next]_vars

(***************************************************************************)
(* HistSpec: the same operations on one identifier, from any store         *)
(* (an identifier may be in both collections, its record may carry flags   *)
(* and tags), with the previously completed operation kept as history.     *)
(***************************************************************************)
HistId == "p1"
UsedMetadata(id) ==
    [NewMetadata(id) EXCEPT !.starred = TRUE, !.tags = <<"t1">>]

HistInit ==
    /\ \E r \in {NewMetadata(HistId), UsedMetadata(HistId)} :
       \E in1 \in SUBSET Status :
       \E in2 \in {{}, {"unread"}, {"read"}} :
       \E gone \in SUBSET Ids :
          LET M(s) == [i \in {j \in Ids : \/ j = HistId /\ s \in in1
                                          \/ j # HistId /\ s \in in2}
                         |-> IF i = HistId THEN r ELSE NewMetadata(i)]
          IN  /\ metaFile \in [Status -> UNION {FilesOf(M(s)) : s \in Status}]
              /\ \A s \in Status : metaFile[s].map = M(s)
              /\ pdfFile = [s \in Status |-> [i \in Ids |->
                    IF i \in DOMAIN M(s) /\ i \notin gone THEN PdfBytes(i) ELSE NoFile]]
    /\ InitProcs
    /\ CacheIdle
    /\ PartsIdle

HistNext ==
    \/ \E p \in SeqProcs : \E o \in {x \in Ops : x.id = HistId} : Call(p, o)
    \/ \E p \in SeqProcs : Step(p)
    \/ \E p \in SeqProcs : ReturnRecorded(p)

HistSpec == HistInit /\ [][HistNext]_vars

(***************************************************************************)
(* TagSpec: addPaperTag and removePaperTag on one identifier, with two     *)
(* tags, the previously completed operation kept as history.               *)
(***************************************************************************)
TagNames == {"t1", "t2", "t3"}
TagOps == [name : {"addPaperTag", "removePaperTag"}, id : {HistId},
           flag : {FALSE}, tag : TagNames]

TagInit ==
    /\ \E tags \in {<<>>, <<"t2">>} :
       \E in1 \in SUBSET Status :
          LET r == [NewMetadata(HistId) EXCEPT !.tags = tags]
              M(s) == [i \in {j \in {HistId} : s \in in1} |-> r]
          IN  /\ metaFile \in [Status -> UNION {FilesOf(M(s)) : s \in Status}]
              /\ \A s \in Status : metaFile[s].map = M(s)
              /\ pdfFile = [s \in Status |-> [i \in Ids |->
                    IF i \in DOMAIN M(s) THEN PdfBytes(i) ELSE NoFile]]
    /\ InitProcs
    /\ CacheIdle
    /\ PartsIdle

TagNext ==
    \/ \E p \in SeqProcs : \E o \in TagOps : Call(p, o)
    \/ \E p \in SeqProcs : UpdateRead(p)
    \/ \E p \in SeqProcs : UpdateWrite(p)
    \/ \E p \in SeqProcs : ReturnRecorded(p)

TagSpec == TagInit /\ [][TagNext]_vars

(***************************************************************************)
(* StartSpec: initializeLocalFileStorage, run again and again, from        *)
(* metadata files in any condition.                                        *)
(***************************************************************************)
InitializeOp == [NoOp EXCEPT !.name = "initializeLocalFileStorage"]

StartInit ==
    /\ \E in1 \in SUBSET Status :
         /\ metaFile \in [Status -> {MissingFile, EmptyFile, CorruptFile,
                                      JsonFile(EmptyMap),
                                      JsonFile([i \in {HistId} |-> NewMetadata(i)])}]
         /\ \A s \in Status : DOMAIN metaFile[s].map # {} => s \in in1
         /\ pdfFile = [s \in Status |-> [i \in Ids |->
               IF i = HistId /\ s \in in1 THEN PdfBytes(i) ELSE NoFile]]
    /\ InitProcs
    /\ CacheIdle
    /\ PartsIdle

StartNext ==
    \/ \E p \in SeqProcs : Call(p, InitializeOp)
    \/ \E p \in SeqProcs : InitAccess(p)
    \/ \E p \in SeqProcs : InitCreate(p)
    \/ \E p \in SeqProcs : InitRead(p)
    \/ \E p \in SeqProcs : InitBlank(p)
    \/ \E p \in SeqProcs : InitReset(p)
    \/ \E p \in SeqProcs : ReturnRecorded(p)

StartSpec == StartInit /\ [][StartNext]_vars

(***************************************************************************)
(* AsyncSpec: two callers, one operation each, whose awaits interleave in  *)
(* any order (nothing in the module serialises the exported functions).    *)
(***************************************************************************)
AsyncOps ==
    {o \in Ops : \/ (o.id = "p1" /\ o.name \in TransitionNames \cup {"deleteLocalPaper"})
                 \/ (o.id = "p1" /\ o.name = "setPaperStarred" /\ o.flag)
                 \/ o.name = "addPaperTag"}

AsyncInit ==
    /\ \E s1 \in Status : \E in2 \in {{}, {"unread"}} : \E gone \in SUBSET {"p1"} :
          /\ metaFile = [s \in Status |->
                JsonFile([i \in {j \in Ids : (j = "p1" /\ s = s1)
                                              \/ (j = "p2" /\ s \in in2)}
                            |-> NewMetadata(i)])]
          /\ pdfFile = [s \in Status |-> [i \in Ids |->
                IF i \in DOMAIN metaFile[s].map /\ i \notin gone
                THEN PdfBytes(i) ELSE NoFile]]
    /\ InitProcs
    /\ CacheIdle
    /\ PartsIdle

AsyncNext ==
    \/ \E p \in Procs : \E o \in AsyncOps : Call(p, o)
    \/ \E p \in Procs : Step(p)

AsyncSpec == AsyncInit /\ [][AsyncNext]_vars

(***************************************************************************)
(* StoreSpec: writeMetadataFile called with any mapping of valid records,  *)
(* on any collection, again and again.                                     *)
(***************************************************************************)
\* The records a download may hand over for id: flags and tags as the user
\* set them, the doi given or left undefined.
ValidRecords(id) ==
    {r @@ d : r \in {NewMetadata(id), UsedMetadata(id)},
              d \in {<<>>, [doi |-> "10.1000/x"], [doi |-> undefined]}}
ValidMappings ==
    UNION {{m \in [S -> UNION {ValidRecords(i) : i \in S}] :
               \A i \in S : m[i] \in ValidRecords(i)} : S \in SUBSET Ids}

\* await writeMetadataFile(status, data)
StoreWrite(p) ==
    /\ pc[p] = "w_write"
    /\ \E status \in Status : \E data \in ValidMappings : \E outcome \in WriteOutcomes :
         /\ metaFile' = writeMetadataFile(status, data, outcome)
         /\ frame' = [frame EXCEPT ![p].status = status, ![p].buf = data,
                                   ![p].e = IF outcome = "ok" THEN "none"
                                            ELSE "writeMetadataFile"]
         /\ Finish(p, IF outcome = "ok" THEN "ok" ELSE "error")
    /\ UNCHANGED <<pdfFile, op>>
    /\ UNCHANGED <<pre, prev>>
    /\ UNCHANGED <<cacheVars, partVars>>

StoreInit == RepoIdle /\ CacheIdle /\ PartsIdle

StoreNext ==
    \/ \E p \in SeqProcs : Call(p, [NoOp EXCEPT !.name = "writeMetadataFile"])
    \/ \E p \in SeqProcs : StoreWrite(p)
    \/ \E p \in SeqProcs : Return(p)

StoreSpec == StoreInit /\ [][StoreNext]_vars

(***************************************************************************)
(* PartsSpec: extractPartsFromResult applied to every string made of at    *)
(* most MaxPieces pieces.                                                  *)
(***************************************************************************)
MaxPieces == 4
\* One inline image reference with a data URI target.
ImageReference == <<"!", "[", "x", "]", "(", DataImage, "x", ")">>
\* Characters, and the parts of an image reference that make strings of few
\* pieces come close to one.
Pieces ==
    {<<"x">>, <<LineTerminator>>, <<"!">>, <<")">>, <<DataImage>>,
     <<"!", "[">>, <<"]", "(">>, <<"]", "(", DataImage, "x", ")">>, ImageReference}

RECURSIVE Concat(_)
Concat(pieces) ==
    IF pieces = <<>> THEN <<>> ELSE Head(pieces) \o Concat(Tail(pieces))

Inputs(most) == UNION {{Concat(ps) : ps \in [1..n -> Pieces]} : n \in 0..most}

PartsInit ==
    /\ markdown \in Inputs(MaxPieces)
    /\ parts = <<>>
    /\ xpc = "called"
    /\ RepoIdle
    /\ CacheIdle

PartsNext == ExtractParts

PartsSpec == PartsInit /\ [][PartsNext]_vars

(***************************************************************************)
(* Claims.                                                                 *)
(***************************************************************************)
InMap(s, id) == Has(readMetadataFile(s), id)

(***************************************************************************)
(* OkSpec: the repository operations run one at a time from a store where  *)
(* every record has its PDF beside it, the next operation being called     *)
(* only when the one before has completed without error.                   *)
(***************************************************************************)
\* Every identifier has its PDF in the directory of the collection whose
\* mapping holds it, and in no other.
Colocated ==
    \A id \in Ids : \A s \in Status : pdfFile[s][id] # NoFile <=> InMap(s, id)

OkInit == Init /\ Colocated

\* The caller has seen the operation resolve.
ReturnOk(p) ==
    /\ result[p] = "ok"
    /\ Return(p)

OkNext ==
    \/ \E p \in SeqProcs : \E o \in Ops : Call(p, o)
    \/ \E p \in SeqProcs : Step(p)
    \/ \E p \in SeqProcs : ReturnOk(p)

OkSpec == OkInit /\ [][OkNext]_vars


\* C1: run one at a time from a store where every identifier is in at most
\* one collection, the repository operations keep every identifier in at
\* most one collection's metadata mapping in every state, the states between
\* the steps of a status transition included.
C1_AtMostOneCollection ==
    \A id \in Ids : ~(InMap("unread", id) /\ InMap("read", id))

\* A status transition is between its two metadata writes.
C1_Witness ==
    \E p \in Procs :
        /\ pc[p] = "t_writeDst"
        /\ op[p].name = "markPaperAsRead"
        /\ ~InMap("unread", op[p].id)
        /\ \E other \in Ids \ {op[p].id} : InMap("read", other)

\* C2: when markPaperAsRead(id) completes without error on an identifier
\* that was in the unread mapping, getLocalPaper(id) returns a record whose
\* file path is under the read directory and the identifier is absent from
\* the unread mapping.
C2_MarkAsReadMoves ==
    \A p \in Procs :
        ( /\ pc[p] = "done"
          /\ op[p].name = "markPaperAsRead"
          /\ result[p] = "ok"
          /\ Has(pre[p].meta["unread"], op[p].id) )
        => /\ getLocalPaper(op[p].id) # Undefined
           /\ getLocalPaper(op[p].id).filePath = getPaperFilePath(op[p].id, "read")
           /\ ~InMap("unread", op[p].id)

C2_Witness ==
    \E p \in Procs :
        /\ pc[p] = "done"
        /\ op[p].name = "markPaperAsRead"
        /\ result[p] = "ok"
        /\ Has(pre[p].meta["unread"], op[p].id)
        /\ getLocalPaper(op[p].id).filePath.dir = "readPapers"

\* C3: for an identifier present only in unread, markPaperAsRead(id)
\* immediately followed by markPaperAsUnread(id), both completing without
\* error, leaves both metadata mappings as they were before the pair: the
\* record of id is unchanged and is back in the unread collection.
C3_RoundTrip ==
    \A p \in Procs :
        ( /\ pc[p] = "done"
          /\ op[p].name = "markPaperAsUnread"
          /\ result[p] = "ok"
          /\ prev.op.name = "markPaperAsRead"
          /\ prev.op.id = op[p].id
          /\ prev.result = "ok"
          /\ Has(prev.pre.meta["unread"], op[p].id)
          /\ ~Has(prev.pre.meta["read"], op[p].id) )
        => /\ \A s \in Status : readMetadataFile(s) = prev.pre.meta[s]
           /\ getLocalPaper(op[p].id) =
                convertMetadataToLocalPaper(op[p].id,
                    prev.pre.meta["unread"][op[p].id], "unread")

\* The pair has completed on a starred, tagged record that shares the unread
\* collection with another paper.
C3_Witness ==
    \E p \in Procs :
        /\ pc[p] = "done"
        /\ op[p].name = "markPaperAsUnread"
        /\ result[p] = "ok"
        /\ prev.op.name = "markPaperAsRead"
        /\ prev.op.id = op[p].id
        /\ prev.result = "ok"
        /\ Has(prev.pre.meta["unread"], op[p].id)
        /\ ~Has(prev.pre.meta["read"], op[p].id)
        /\ prev.pre.meta["unread"][op[p].id].starred
        /\ DOMAIN prev.pre.meta["unread"] = Ids
        /\ InMap("unread", op[p].id)

\* C7 as stated: for every identifier and every state, the second of two
\* deleteLocalPaper(id) calls in a row never raises an error, and after it the
\* identifier is absent from both metadata mappings.
C7_DeleteTwiceAsStated ==
    \A p \in Procs :
        ( /\ pc[p] = "done"
          /\ op[p].name = "deleteLocalPaper"
          /\ prev.op.name = "deleteLocalPaper"
          /\ prev.op.id = op[p].id )
        => /\ result[p] = "ok"
           /\ ~InMap("unread", op[p].id)
           /\ ~InMap("read", op[p].id)

\* C7 amended: if the first deleteLocalPaper(id) completes without error on
\* an identifier that was in at most one collection, the second call raises
\* no error and changes nothing; and whenever both calls complete without
\* error the identifier is absent from both metadata mappings.
C7_DeleteTwice ==
    \A p \in Procs :
        ( /\ pc[p] = "done"
          /\ op[p].name = "deleteLocalPaper"
          /\ prev.op.name = "deleteLocalPaper"
          /\ prev.op.id = op[p].id
          /\ prev.result = "ok" )
        => /\ ( ~( /\ Has(prev.pre.meta["unread"], op[p].id)
                   /\ Has(prev.pre.meta["read"], op[p].id) )
                => /\ result[p] = "ok"
                   /\ \A s \in Status : readMetadataFile(s) = pre[p].meta[s]
                   /\ pdfFile = pre[p].pdf )
           /\ ( result[p] = "ok"
                => /\ ~InMap("unread", op[p].id)
                   /\ ~InMap("read", op[p].id) )

\* Two deletes in a row have completed, the first one having removed the
\* record and its PDF.
C7_Witness ==
    \E p \in Procs :
        /\ pc[p] = "done"
        /\ op[p].name = "deleteLocalPaper"
        /\ result[p] = "ok"
        /\ prev.op.name = "deleteLocalPaper"
        /\ prev.op.id = op[p].id
        /\ prev.result = "ok"
        /\ Has(prev.pre.meta["unread"], op[p].id)
        /\ prev.pre.pdf["unread"][op[p].id] # NoFile
        /\ pdfFile["unread"][op[p].id] = NoFile

\* The operation of p found no record to act on: the identifier was in
\* neither collection, or, for a status transition, not in the source one.
NoMatch(p) ==
    IF op[p].name \in TransitionNames
    THEN ~Has(pre[p].meta[Src(op[p])], op[p].id)
    ELSE \A s \in Status : ~Has(pre[p].meta[s], op[p].id)
\* The store is as the operation of p found it.
StoreUntouched(p) ==
    /\ \A s \in Status : readMetadataFile(s) = pre[p].meta[s]
    /\ pdfFile = pre[p].pdf

\* C11: a mutation on an identifier with no matching record (in neither
\* collection; for markPaperAsRead / markPaperAsUnread, not in the source
\* collection) completes without error and leaves both metadata mappings and
\* all PDF files unchanged; getLocalPaper on an identifier in neither
\* collection returns not-found.
C11_AbsentIsNoOp ==
    /\ \A p \in Procs :
         (pc[p] = "done" /\ op[p].name \in OpNames /\ NoMatch(p))
            => (result[p] = "ok" /\ StoreUntouched(p))
    /\ \A id \in Ids :
         (~InMap("unread", id) /\ ~InMap("read", id)) => getLocalPaper(id) = Undefined

\* markPaperAsUnread has returned for a paper that is in unread, not in read,
\* while the other identifier is in neither collection.
C11_Witness ==
    \E p \in Procs :
        /\ pc[p] = "done"
        /\ op[p].name = "markPaperAsUnread"
        /\ result[p] = "ok"
        /\ NoMatch(p)
        /\ InMap("unread", op[p].id)
        /\ pdfFile["unread"][op[p].id] # NoFile
        /\ \E other \in Ids : getLocalPaper(other) = Undefined

\* The tag list of id in the mappings meta: that of the first collection, in
\* scan order, that holds id.
TagsIn(meta, id) ==
    IF Has(meta["unread"], id) THEN meta["unread"][id].tags ELSE meta["read"][id].tags
TagsNow(id) == TagsIn([s \in Status |-> readMetadataFile(s)], id)
Occurrences(tags, t) == Cardinality({i \in DOMAIN tags : tags[i] = t})
\* The operation of p has completed without error on an identifier that had
\* a record.
UpdatedOk(p, name) ==
    /\ pc[p] = "done"
    /\ op[p].name = name
    /\ result[p] = "ok"
    /\ \E s \in Status : Has(pre[p].meta[s], op[p].id)
\* The operation before the one of p was the same addPaperTag, and completed.
SecondAdd(p) ==
    /\ UpdatedOk(p, "addPaperTag")
    /\ prev.op = op[p]
    /\ prev.result = "ok"

\* C12: after addPaperTag(id, t) twice in a row the tag list of id holds t
\* exactly once and is the list the first call left; removePaperTag(id, t)
\* for a tag that is not in the list leaves the list as it was.
C12_TagsIdempotent ==
    \A p \in Procs :
        /\ SecondAdd(p) =>
              /\ Occurrences(TagsNow(op[p].id), op[p].tag) = 1
              /\ TagsNow(op[p].id) = TagsIn(pre[p].meta, op[p].id)
        /\ ( /\ UpdatedOk(p, "removePaperTag")
             /\ Occurrences(TagsIn(pre[p].meta, op[p].id), op[p].tag) = 0 )
           => TagsNow(op[p].id) = TagsIn(pre[p].meta, op[p].id)

\* The second addPaperTag(id, "t1") has completed on a list that held another
\* tag before the first.
C12_Witness ==
    \E p \in Procs :
        /\ SecondAdd(p)
        /\ op[p].tag = "t1"
        /\ TagsIn(prev.pre.meta, op[p].id) = <<"t2">>
        /\ TagsNow(op[p].id) = <<"t2", "t1">>

\* The operation of p, which removes a PDF, has ended.
RemovalDone(p) ==
    pc[p] = "done" /\ op[p].name \in TransitionNames \cup {"deleteLocalPaper"}
\* The PDF that the operation of p had to remove was already gone: its unlink
\* found no file, or (status transitions) the read before it found none.
AlreadyGone(p) ==
    \/ frame[p].unlinked = "ENOENT"
    \/ /\ op[p].name \in TransitionNames
       /\ ~NoMatch(p)
       /\ pre[p].pdf[Src(op[p])][op[p].id] = NoFile
\* The metadata update of the operation of p is complete.
MetadataUpdated(p) ==
    IF op[p].name \in TransitionNames
    THEN /\ ~InMap(Src(op[p]), op[p].id)
         /\ InMap(Dst(op[p]), op[p].id)
         /\ readMetadataFile(Dst(op[p]))[op[p].id] = pre[p].meta[Src(op[p])][op[p].id]
    ELSE ~InMap(frame[p].status, op[p].id)

\* C14: in markPaperAsRead, markPaperAsUnread and deleteLocalPaper, a PDF that
\* is already gone is no error: the operation goes on to its metadata update
\* (it fails only if mkdir or a metadata write fails, and if it returns the
\* update is complete); a removal that fails with another error makes the
\* operation throw with both metadata mappings as they were.
C14_RemovalErrors ==
    \A p \in Procs :
        /\ (RemovalDone(p) /\ AlreadyGone(p)) =>
              /\ frame[p].e \in {"none", "mkdir", "writeMetadataFile"}
              /\ result[p] = "ok" => MetadataUpdated(p)
        /\ (RemovalDone(p) /\ frame[p].unlinked = "EIO") =>
              /\ result[p] = "error"
              /\ frame[p].e = "unlink"
              /\ \A s \in Status : readMetadataFile(s) = pre[p].meta[s]

\* markPaperAsRead has thrown the error of its unlink: the PDF is in both
\* directories, the record still in unread only.
C14_Witness ==
    \E p \in Procs :
        /\ RemovalDone(p)
        /\ op[p].name = "markPaperAsRead"
        /\ frame[p].unlinked = "EIO"
        /\ result[p] = "error"
        /\ pdfFile["read"][op[p].id] = pdfFile["unread"][op[p].id]
        /\ pdfFile["read"][op[p].id] # NoFile
        /\ InMap("unread", op[p].id)

\* C15: an operation whose metadata write fails does not raise an error
\* because of that failure.
C15_WriteFailureNotThrown ==
    \A p \in Procs : pc[p] = "done" => frame[p].e # "writeMetadataFile"

\* The metadata file of every collection the operation of p had to find its
\* record in was missing or corrupt when the operation was called.
Unreadable(p) ==
    IF op[p].name \in TransitionNames
    THEN pre[p].kind[Src(op[p])] # "json"
    ELSE \A s \in Status : pre[p].kind[s] # "json"

\* C16: reading never raises. A missing or corrupt metadata file reads as the
\* empty mapping: listLocalPapers returns no paper of that collection,
\* getLocalPaper does not find an identifier that no readable file holds, and
\* an operation that reads only such files does what it does on an empty
\* mapping: it returns without error and without a change to any file.
C16_ReadFailsOpen ==
    /\ \A s \in Status :
         metaFile[s].kind # "json" =>
            /\ readMetadataFile(s) = EmptyMap
            /\ listLocalPapers({s}) = {}
            /\ listLocalPapers(Status) = listLocalPapers(Status \ {s})
    /\ \A id \in Ids :
         (\A s \in Status : metaFile[s].kind # "json" \/ ~Has(metaFile[s].map, id))
            => getLocalPaper(id) = Undefined
    /\ \A p \in Procs :
         (pc[p] = "done" /\ op[p].name \in OpNames /\ Unreadable(p)) =>
            /\ result[p] = "ok"
            /\ StoreUntouched(p)
            /\ \A s \in Status : metaFile[s].kind = pre[p].kind[s]

\* An update has returned from a store whose unread file was corrupt and
\* whose read file was missing.
C16_Witness ==
    \E p \in Procs :
        /\ pc[p] = "done"
        /\ op[p].name = "addPaperTag"
        /\ result[p] = "ok"
        /\ pre[p].kind = [s \in Status |-> IF s = "unread" THEN "corrupt" ELSE "missing"]
        /\ listLocalPapers(Status) = {}
        /\ getLocalPaper(op[p].id) = Undefined

\* The copy of id that collection s holds, as getLocalPaper hands it out.
Copy(s, id) == convertMetadataToLocalPaper(id, readMetadataFile(s)[id], s)

\* C18: getLocalPaper(id) returns the unread copy whenever the unread mapping
\* holds id (also when the read mapping holds it too), the read copy only when
\* the unread mapping does not hold id, and not-found only when neither
\* mapping holds it. (A mapping is what readMetadataFile returns.)
C18_UnreadFirst ==
    \A id \in Ids :
        LET found == getLocalPaper(id)
        IN  /\ InMap("unread", id) => found = Copy("unread", id)
            /\ (found # Undefined /\ found.filePath = getPaperFilePath(id, "read"))
                  => /\ ~InMap("unread", id)
                     /\ found = Copy("read", id)
            /\ (~InMap("unread", id) /\ InMap("read", id)) => found = Copy("read", id)
            /\ found = Undefined <=> (~InMap("unread", id) /\ ~InMap("read", id))

\* An identifier is in both collections with two different records, and the
\* unread one is returned.
C18_Witness ==
    \E id \in Ids :
        /\ InMap("unread", id) /\ InMap("read", id)
        /\ readMetadataFile("unread")[id] # readMetadataFile("read")[id]
        /\ getLocalPaper(id).filePath = getPaperFilePath(id, "unread")
        /\ getLocalPaper(id).tags = readMetadataFile("unread")[id].tags

\* record.field, undefined when the record has no such member.
Get(record, field) ==
    IF field \in DOMAIN record THEN record[field] ELSE undefined

Moving(p) ==
    /\ op[p].name \in TransitionNames
    /\ pc[p] \notin {"idle", "t_readSrc"}
    /\ frame[p].paperMeta # Undefined

\* No metadata file has been written since p's operation was called.
MetadataAsCalled(p, s) ==
    /\ metaFile[s].kind = pre[p].kind[s]
    /\ readMetadataFile(s) = pre[p].meta[s]

\* The PDF of p's transition has been read, written to the destination and
\* deleted at the source.
PdfMoved(p) ==
    /\ frame[p].fileData # NoFile
    /\ frame[p].fileData = pre[p].pdf[Src(op[p])][op[p].id]
    /\ pdfFile[Dst(op[p])][op[p].id] = frame[p].fileData
    /\ pdfFile[Src(op[p])][op[p].id] = NoFile
    /\ frame[p].unlinked = "ok"

\* The read found no PDF at the source: nothing was written or deleted.
PdfWasMissing(p) ==
    /\ pre[p].pdf[Src(op[p])][op[p].id] = NoFile
    /\ frame[p].fileData = NoFile
    /\ frame[p].unlinked = "none"
    /\ pdfFile = pre[p].pdf

\* The steps of p's transition that have been taken, by the await it is at,
\* with Moved(p) what the three steps of the PDF move have left.
StepsInOrder(p, Moved(_)) ==
    /\ pc[p] \in {"t_mkdir", "t_readPdf"} =>
          /\ pdfFile = pre[p].pdf
          /\ \A s \in Status : MetadataAsCalled(p, s)
    /\ pc[p] = "t_writePdf" =>
          /\ frame[p].fileData = pdfFile[Src(op[p])][op[p].id]
          /\ pdfFile = pre[p].pdf
          /\ \A s \in Status : MetadataAsCalled(p, s)
    /\ pc[p] = "t_unlink" =>
          /\ pdfFile[Dst(op[p])][op[p].id] = frame[p].fileData
          /\ pdfFile[Src(op[p])][op[p].id] = frame[p].fileData
          /\ \A s \in Status : MetadataAsCalled(p, s)
    /\ pc[p] = "t_writeSrc" =>
          /\ Moved(p)
          /\ \A s \in Status : MetadataAsCalled(p, s)
    /\ pc[p] \in {"t_readDst", "t_writeDst"} =>
          /\ Moved(p)
          /\ metaFile[Src(op[p])] = JsonFile(Remove(pre[p].meta[Src(op[p])], op[p].id))
          /\ MetadataAsCalled(p, Dst(op[p]))
    /\ (pc[p] = "done" /\ result[p] = "ok") =>
          /\ Moved(p)
          /\ metaFile[Src(op[p])] = JsonFile(Remove(pre[p].meta[Src(op[p])], op[p].id))
          /\ metaFile[Dst(op[p])] =
                JsonFile(Put(pre[p].meta[Dst(op[p])], op[p].id, frame[p].paperMeta))

\* C22 as stated: in every status transition that completes, the source PDF is
\* read, then written to the destination, then deleted, then the source
\* mapping without the identifier is persisted, then the destination mapping
\* with it; no metadata file is written before the PDF move.
C22_StepsInOrderAsStated ==
    \A p \in Procs : Moving(p) => StepsInOrder(p, PdfMoved)

\* The PDF move of p's transition has been attempted: done in full, or given
\* up at the read because the source had no PDF.
PdfMoveAttempted(p) == PdfMoved(p) \/ PdfWasMissing(p)

\* C22: in every status transition that completes, the steps occur in this
\* order: the source PDF is read, written to the destination and deleted at
\* the source (or, when the source has no PDF, the read fails with ENOENT and
\* nothing is written or deleted), then the source mapping without the
\* identifier is persisted, and only then the destination mapping with it; no
\* metadata file is written before the PDF move has been attempted.
C22_StepsInOrder ==
    \A p \in Procs : Moving(p) => StepsInOrder(p, PdfMoveAttempted)

\* A transition has completed after moving a PDF.
C22_Witness ==
    \E p \in Procs :
        /\ Moving(p) /\ pc[p] = "done" /\ result[p] = "ok"
        /\ PdfMoved(p)
        /\ InMap(Dst(op[p]), op[p].id)

\* p's transition has deleted the source PDF (step 3) and has not yet
\* persisted the destination mapping (step 5): what is on disk now is what an
\* interruption of p at this await leaves behind.
BetweenDeleteAndInsert(p) ==
    /\ Moving(p)
    /\ pc[p] \in {"t_writeSrc", "t_readDst", "t_writeDst"}
    /\ frame[p].unlinked = "ok"

\* C23 as stated: interrupted after step 3 and before step 5, the PDF is at the
\* destination and the source mapping still references the identifier.
C23_CrashWindowAsStated ==
    \A p \in Procs :
        BetweenDeleteAndInsert(p) =>
            /\ pdfFile[Dst(op[p])][op[p].id] # NoFile
            /\ InMap(Src(op[p]), op[p].id)

\* C23: interrupted after step 3 and before step 5, the PDF is at the
\* destination and no longer at the source; before the source mapping is
\* persisted (step 4) the source mapping still references the identifier,
\* after it the source mapping does not, and the destination mapping
\* references the identifier only if it already did when the transition
\* started: the record can be absent from both mappings.
C23_CrashWindow ==
    \A p \in Procs :
        BetweenDeleteAndInsert(p) =>
            /\ pdfFile[Dst(op[p])][op[p].id] = pre[p].pdf[Src(op[p])][op[p].id]
            /\ pdfFile[Dst(op[p])][op[p].id] # NoFile
            /\ pdfFile[Src(op[p])][op[p].id] = NoFile
            /\ pc[p] = "t_writeSrc" => InMap(Src(op[p]), op[p].id)
            /\ pc[p] # "t_writeSrc" => ~InMap(Src(op[p]), op[p].id)
            /\ InMap(Dst(op[p]), op[p].id) <=> Has(pre[p].meta[Dst(op[p])], op[p].id)

\* The source mapping has been persisted without the identifier, the
\* destination mapping not yet with it: no mapping references the identifier.
C23_Witness ==
    \E p \in Procs :
        /\ BetweenDeleteAndInsert(p)
        /\ pc[p] = "t_writeDst"
        /\ \A s \in Status : ~InMap(s, op[p].id)
        /\ pdfFile[Dst(op[p])][op[p].id] # NoFile

\* C24 as stated: also when two operations interleave at their awaits, no
\* identifier is in both the unread and the read mapping.
C24_AtMostOneInterleavedAsStated ==
    ~\E id \in Ids : \A s \in Status : InMap(s, id)

\* C24: the at-most-one-collection invariant holds as long as no two
\* repository operations have interleaved at their awaits: an identifier is in
\* both the unread and the read mapping only after two operations have
\* overlapped.
C24_AtMostOneInterleaved ==
    \A id \in Ids :
        (InMap("unread", id) /\ InMap("read", id))
            => \A p \in Procs : frame[p].overlapped

\* Two operations have overlapped and completed without error, one of them
\* markPaperAsRead, and their identifier is in both mappings.
C24_Witness ==
    /\ \A p \in Procs : pc[p] = "done" /\ result[p] = "ok" /\ frame[p].overlapped
    /\ op["main"].name = "markPaperAsRead"
    /\ op["other"].name = "setPaperStarred"
    /\ op["main"].id = op["other"].id
    /\ InMap("unread", op["main"].id) /\ InMap("read", op["main"].id)

\* p's operation was an update or a delete that found its identifier and
\* resolved.
Mutated(p) ==
    /\ pc[p] = "done" /\ result[p] = "ok"
    /\ op[p].name \in UpdateNames \cup {"deleteLocalPaper"}
    /\ Has(frame[p].buf, op[p].id)

\* The mapping p's operation wrote.
MappingOf(p) ==
    IF op[p].name = "deleteLocalPaper"
    THEN Remove(frame[p].buf, op[p].id)
    ELSE Put(frame[p].buf, op[p].id, updateFn(op[p], frame[p].buf[op[p].id]))

\* p and q have both read the file of the same collection before either wrote
\* it: they overlapped and worked on the same mapping (every operation of
\* AsyncSpec changes the mapping it read, so the second would have read
\* another mapping after the first one's write).
BothReadFirst(p, q) ==
    /\ p # q
    /\ Mutated(p) /\ Mutated(q)
    /\ frame[p].overlapped /\ frame[q].overlapped
    /\ frame[p].status = frame[q].status
    /\ frame[p].buf = frame[q].buf

\* C25: when two mutating operations on the same metadata file have both read
\* it before either wrote it, both resolve without error and the file ends
\* up holding the mapping of one of them alone, the other one's change
\* missing from it.
C25_LastWriterWins ==
    \A p, q \in Procs :
        BothReadFirst(p, q) =>
            /\ result[p] = "ok" /\ result[q] = "ok"
            /\ frame[p].e = "none" /\ frame[q].e = "none"
            /\ metaFile[frame[p].status] \in {JsonFile(MappingOf(p)), JsonFile(MappingOf(q))}

\* addPaperTag and setPaperStarred on the same record have both resolved; the
\* file holds the star and not the tag.
C25_Witness ==
    \E p, q \in Procs :
        /\ BothReadFirst(p, q)
        /\ op[p].name = "addPaperTag" /\ op[q].name = "setPaperStarred"
        /\ op[p].id = op[q].id
        /\ metaFile[frame[p].status] = JsonFile(MappingOf(q))
        /\ readMetadataFile(frame[p].status)[op[p].id].tags = <<>>
        /\ readMetadataFile(frame[p].status)[op[p].id].starred

\* The field of the record that operation o sets.
FieldSet(o) ==
    CASE o.name = "setPaperStarred"  -> "starred"
      [] o.name = "setPaperArchived" -> "archived"
      [] o.name \in {"addPaperTag", "removePaperTag"} -> "tags"

\* C26: a setPaperStarred, setPaperArchived, addPaperTag or removePaperTag
\* that completes on an identifier it found has written the metadata file of
\* the first collection, unread then read, that held the identifier, and
\* nothing else: the other collection's file is as it was, the written
\* mapping has the same identifiers, the records of the other identifiers and
\* the other fields of the target record are as they were, and no PDF file
\* has changed.
C26_UpdateFrame ==
    \A p \in Procs :
        (pc[p] = "done" /\ result[p] = "ok" /\ op[p].name \in UpdateNames
            /\ \E s \in Status : Has(pre[p].meta[s], op[p].id))
        => LET id == op[p].id
               c == IF Has(pre[p].meta["unread"], id) THEN "unread" ELSE "read"
               was == pre[p].meta[c]
               is == readMetadataFile(c)
           IN  /\ metaFile[c].kind = "json"
               /\ DOMAIN is = DOMAIN was
               /\ \A other \in DOMAIN was \ {id} : is[other] = was[other]
               /\ \A f \in DOMAIN was[id] \ {FieldSet(op[p])} : is[id][f] = was[id][f]
               /\ is[id] = updateFn(op[p], was[id])
               /\ \A s \in Status \ {c} :
                     /\ metaFile[s].kind = pre[p].kind[s]
                     /\ readMetadataFile(s) = pre[p].meta[s]
               /\ pdfFile = pre[p].pdf

\* setPaperArchived has completed on an identifier that is in both
\* collections with a star and a tag, next to another identifier in unread:
\* the unread record is archived, the read record is not.
C26_Witness ==
    \E p \in Procs :
        /\ pc[p] = "done" /\ result[p] = "ok"
        /\ op[p].name = "setPaperArchived" /\ op[p].flag
        /\ Has(pre[p].meta["unread"], op[p].id) /\ Has(pre[p].meta["read"], op[p].id)
        /\ ~pre[p].meta["unread"][op[p].id].archived
        /\ pre[p].meta["unread"][op[p].id].tags # <<>>
        /\ DOMAIN readMetadataFile("unread") = Ids
        /\ readMetadataFile("unread")[op[p].id].archived
        /\ ~readMetadataFile("read")[op[p].id].archived

\* C27: after a status transition that completes on an identifier it found,
\* the destination mapping holds for the identifier the record the source
\* mapping held when the transition was called, every field included, and
\* both mappings hold the other identifiers they held, with the same records.
C27_RecordCopied ==
    \A p \in Procs :
        (pc[p] = "done" /\ result[p] = "ok" /\ op[p].name \in TransitionNames
            /\ Has(pre[p].meta[Src(op[p])], op[p].id))
        => /\ InMap(Dst(op[p]), op[p].id)
           /\ readMetadataFile(Dst(op[p]))[op[p].id] = pre[p].meta[Src(op[p])][op[p].id]
           /\ \A s \in Status :
                 /\ DOMAIN readMetadataFile(s) \ {op[p].id} = DOMAIN pre[p].meta[s] \ {op[p].id}
                 /\ \A other \in DOMAIN pre[p].meta[s] \ {op[p].id} :
                       readMetadataFile(s)[other] = pre[p].meta[s][other]

\* markPaperAsUnread has moved a record with a star and a tag into a
\* collection that held another identifier.
C27_Witness ==
    \E p \in Procs :
        /\ pc[p] = "done" /\ result[p] = "ok" /\ op[p].name = "markPaperAsUnread"
        /\ Has(pre[p].meta["read"], op[p].id)
        /\ pre[p].meta["read"][op[p].id].starred
        /\ pre[p].meta["read"][op[p].id].tags # <<>>
        /\ DOMAIN pre[p].meta["unread"] = Ids \ {op[p].id}
        /\ DOMAIN readMetadataFile("unread") = Ids
        /\ readMetadataFile("unread")[op[p].id].tags # <<>>

\* The tag list has no tag twice.
NoDuplicates(tags) == \A i, j \in DOMAIN tags : tags[i] = tags[j] => i = j

\* C28: from records whose tag lists have no duplicates, addPaperTag and
\* removePaperTag in any sequence leave no duplicates in any tag list; a
\* completed addPaperTag of a tag that was not in the list leaves the list
\* with the tag appended, and a completed removePaperTag leaves the list
\* without the elements equal to the tag, the others in their order.
C28_TagListOrdered ==
    /\ \A s \in Status : \A id \in DOMAIN readMetadataFile(s) :
          NoDuplicates(readMetadataFile(s)[id].tags)
    /\ \A p \in Procs :
          LET was == TagsIn(pre[p].meta, op[p].id)
              Others(t) == t # op[p].tag
          IN  /\ (UpdatedOk(p, "addPaperTag") /\ Occurrences(was, op[p].tag) = 0)
                    => TagsNow(op[p].id) = was \o <<op[p].tag>>
              /\ UpdatedOk(p, "removePaperTag")
                    => /\ Occurrences(TagsNow(op[p].id), op[p].tag) = 0
                       /\ TagsNow(op[p].id) = SelectSeq(was, Others)

\* A third tag has been appended to a list of two, and then the first of the
\* three tags has been removed.
C28_Witness ==
    \E p \in Procs :
        /\ UpdatedOk(p, "removePaperTag")
        /\ Len(TagsIn(pre[p].meta, op[p].id)) = 3
        /\ TagsIn(pre[p].meta, op[p].id)[1] = op[p].tag
        /\ TagsNow(op[p].id) = Tail(TagsIn(pre[p].meta, op[p].id))
        /\ prev.op.name = "addPaperTag" /\ prev.result = "ok"
        /\ Len(TagsIn(prev.pre.meta, op[p].id)) = 2

\* deleteLocalPaper runs on p for an identifier that was in the mapping of
\* collection s and of no other when it was called.
DeletingFrom(p, s) ==
    /\ op[p].name = "deleteLocalPaper"
    /\ pc[p] \in {"d_read", "d_unlink", "d_write", "done"}
    /\ \A t \in Status : Has(pre[p].meta[t], op[p].id) <=> t = s
\* Collection t holds what it held when the operation of p was called, but
\* for the record and the PDF of the operation's identifier.
OthersAsCalled(p, t) ==
    /\ metaFile[t].kind = pre[p].kind[t]
    /\ Remove(readMetadataFile(t), op[p].id) = Remove(pre[p].meta[t], op[p].id)
    /\ \A i \in Ids \ {op[p].id} : pdfFile[t][i] = pre[p].pdf[t][i]

\* C31: when deleteLocalPaper(id) has completed without error on an
\* identifier that was in exactly one collection, getLocalPaper(id) finds
\* nothing, that collection has no PDF for the identifier, the other
\* identifiers' records and PDFs and the other collection's file and PDFs
\* are as they were; and the PDF is gone while the metadata entry is still
\* there: when the mapping without the identifier is about to be written the
\* PDF no longer exists and both metadata files are as they were.
C31_DeleteRemovesRecord ==
    \A p \in Procs : \A s \in Status :
        /\ (DeletingFrom(p, s) /\ pc[p] = "done" /\ result[p] = "ok") =>
              /\ getLocalPaper(op[p].id) = Undefined
              /\ pdfFile[s][op[p].id] = NoFile
              /\ \A t \in Status : OthersAsCalled(p, t)
              /\ \A t \in Status \ {s} :
                    /\ metaFile[t] = [kind |-> pre[p].kind[t], map |-> metaFile[t].map]
                    /\ readMetadataFile(t) = pre[p].meta[t]
                    /\ pdfFile[t] = pre[p].pdf[t]
        /\ (DeletingFrom(p, s) /\ pc[p] = "d_write") =>
              /\ frame[p].status = s
              /\ pdfFile[s][op[p].id] = NoFile
              /\ \A t \in Status : readMetadataFile(t) = pre[p].meta[t]
        /\ (DeletingFrom(p, s) /\ pdfFile[s][op[p].id] # NoFile) =>
              InMap(s, op[p].id)

\* A delete has completed on an identifier whose PDF existed, in a collection
\* that holds another identifier, which is still there with its PDF.
C31_Witness ==
    \E p \in Procs : \E s \in Status :
        /\ DeletingFrom(p, s)
        /\ pc[p] = "done" /\ result[p] = "ok"
        /\ pre[p].pdf[s][op[p].id] # NoFile
        /\ frame[p].unlinked = "ok"
        /\ \E other \in Ids \ {op[p].id} :
              /\ InMap(s, other)
              /\ pdfFile[s][other] # NoFile

\* A status transition runs, or has ended, on p for an identifier whose PDF
\* was at the source path when it was called.
TransitionWithPdf(p) ==
    /\ op[p].name \in TransitionNames
    /\ pc[p] # "idle"
    /\ pre[p].pdf[Src(op[p])][op[p].id] # NoFile
\* The PDF the transition of p found is at path s.
PdfKeptAt(p, s) == pdfFile[s][op[p].id] = pre[p].pdf[Src(op[p])][op[p].id]

\* C32: if the PDF is at the source path when a status transition starts, it
\* is at the source path or at the destination path in every state of the
\* transition, the states it stops in with an error or is interrupted in
\* included; the source copy goes only when the destination copy is there.
C32_PdfNeverLost ==
    \A p \in Procs :
        TransitionWithPdf(p) =>
            /\ PdfKeptAt(p, Src(op[p])) \/ PdfKeptAt(p, Dst(op[p]))
            /\ pdfFile[Src(op[p])][op[p].id] = NoFile => PdfKeptAt(p, Dst(op[p]))

\* A transition has thrown the error of a metadata write after it moved the
\* PDF: the PDF is at the destination path only.
C32_Witness ==
    \E p \in Procs :
        /\ TransitionWithPdf(p)
        /\ pc[p] = "done" /\ result[p] = "error"
        /\ frame[p].e = "writeMetadataFile"
        /\ pdfFile[Src(op[p])][op[p].id] = NoFile
        /\ PdfKeptAt(p, Dst(op[p]))

\* The operation of p has completed without error on an identifier it found
\* a record for.
CompletedOn(p, names) ==
    /\ pc[p] = "done" /\ result[p] = "ok"
    /\ op[p].name \in names
    /\ \E s \in Status : Has(pre[p].meta[s], op[p].id)
       /\ (op[p].name \in TransitionNames => s = Src(op[p]))

\* C33: from a store where every identifier has its PDF exactly in the
\* directory of the collection whose mapping holds it, operations run one at
\* a time that each complete without error keep it so; a completed
\* transition leaves the PDF at the destination path and not at the source
\* path, a completed delete leaves no PDF for the identifier.
C33_PdfBesideMetadata ==
    /\ (\A p \in Procs : pc[p] = "idle" \/ (pc[p] = "done" /\ result[p] = "ok"))
          => Colocated
    /\ \A p \in Procs :
        /\ CompletedOn(p, TransitionNames) =>
              /\ pdfFile[Dst(op[p])][op[p].id] = pre[p].pdf[Src(op[p])][op[p].id]
              /\ pdfFile[Dst(op[p])][op[p].id] # NoFile
              /\ pdfFile[Src(op[p])][op[p].id] = NoFile
        /\ CompletedOn(p, {"deleteLocalPaper"}) =>
              \A s \in Status : pdfFile[s][op[p].id] = NoFile

\* A transition has completed after an earlier operation did: the PDFs of the
\* two identifiers are in different directories, each beside its record.
C33_Witness ==
    \E p \in Procs :
        /\ CompletedOn(p, {"markPaperAsUnread"})
        /\ InMap("unread", op[p].id)
        /\ pdfFile["unread"][op[p].id] # NoFile
        /\ \E other \in Ids \ {op[p].id} :
              /\ InMap("read", other)
              /\ pdfFile["read"][other] # NoFile
              /\ pre[p].pdf["read"][other] # NoFile

\* A status transition of p has ended with an error, on an identifier that
\* was in the source mapping and not in the destination mapping.
ErroredTransition(p) ==
    /\ pc[p] = "done" /\ result[p] = "error"
    /\ op[p].name \in TransitionNames
    /\ Has(pre[p].meta[Src(op[p])], op[p].id)
    /\ ~Has(pre[p].meta[Dst(op[p])], op[p].id)

TransitionWithoutPdf(p) ==
    /\ op[p].name \in TransitionNames
    /\ pc[p] # "idle"
    /\ Has(pre[p].meta[Src(op[p])], op[p].id)
    /\ pre[p].pdf[Src(op[p])][op[p].id] = NoFile

\* C37: a status transition of a record whose source PDF does not exist is
\* not stopped by that: no call on a PDF makes it throw (it ends with an
\* error only if mkdir or a metadata write rejects), when it completes the
\* record is in the destination mapping as it was in the source mapping and
\* out of the source mapping, and at no point has it created, or removed, a
\* PDF (every PDF path holds what it held when the transition was called).
C37_MissingPdfStillMoves ==
    \A p \in Procs :
        TransitionWithoutPdf(p) =>
            /\ frame[p].e \in {"none", "mkdir", "writeMetadataFile"}
            /\ frame[p].fileData = NoFile
            /\ pdfFile = pre[p].pdf
            /\ (pc[p] = "done" /\ result[p] = "error") => frame[p].e # "none"
            /\ (pc[p] = "done" /\ result[p] = "ok") =>
                  /\ ~InMap(Src(op[p]), op[p].id)
                  /\ InMap(Dst(op[p]), op[p].id)
                  /\ readMetadataFile(Dst(op[p]))[op[p].id]
                        = pre[p].meta[Src(op[p])][op[p].id]

\* markPaperAsRead has completed for a record without PDF: the record is in
\* the read mapping, next to another one, and no PDF of it exists.
C37_Witness ==
    \E p \in Procs :
        /\ TransitionWithoutPdf(p)
        /\ op[p].name = "markPaperAsRead"
        /\ pc[p] = "done" /\ result[p] = "ok"
        /\ InMap("read", op[p].id)
        /\ \A s \in Status : pdfFile[s][op[p].id] = NoFile
        /\ \E other \in Ids \ {op[p].id} : InMap("read", other)

\* initializeLocalFileStorage has completed on process p.
Initialized(p) ==
    /\ pc[p] = "done"
    /\ op[p].name = "initializeLocalFileStorage"
    /\ result[p] = "ok"

\* C17: after initializeLocalFileStorage completes, both metadata files exist
\* and hold parseable JSON; a file that was missing, empty or invalid JSON
\* holds the empty mapping; a file that held a valid mapping is as it was;
\* and a second run in a row changes nothing.
C17_InitializeIdempotent ==
    \A p \in Procs :
        Initialized(p) =>
            /\ \A s \in Status :
                  /\ metaFile[s].kind = "json"
                  /\ pre[p].kind[s] # "json" => metaFile[s].map = EmptyMap
                  /\ pre[p].kind[s] = "json" => metaFile[s].map = pre[p].meta[s]
            /\ (prev.op = op[p] /\ prev.result = "ok") =>
                  \A s \in Status : /\ metaFile[s].kind = pre[p].kind[s]
                                    /\ metaFile[s].map = pre[p].meta[s]

(***************************************************************************)
(* Claims about extractPartsFromResult (PartsSpec).                        *)
(***************************************************************************)
\* The string holds an inline image reference with a data:image target:
\* `![`, then characters of one line, then `](data:image/`, then at least one
\* character other than ")", then ")".
ContainsImageReference(str) ==
    \E i \in 0..(Len(str) - 1) :
        /\ charAt(str, i) = "!" /\ charAt(str, i + 1) = "["
        /\ \E j \in (i + 2)..(Len(str) - 1) :
              /\ charAt(str, j) = "]" /\ charAt(str, j + 1) = "("
              /\ charAt(str, j + 2) = DataImage
              /\ \A n \in (i + 2)..(j - 1) : charAt(str, n) # LineTerminator
              /\ \E k \in (j + 4)..(Len(str) - 1) :
                    /\ charAt(str, k) = ")"
                    /\ \A n \in (j + 3)..(k - 1) : charAt(str, n) # ")"

\* C19 as stated: every input without an image reference, the empty string
\* included, yields exactly one text segment whose content is the input.
C19_PlainTextAsStated ==
    (xpc = "returned" /\ ~ContainsImageReference(markdown))
        => parts = <<TextPart(markdown)>>

\* C19: every non-empty input without an inline image reference with a
\* data:image target yields exactly one text segment whose content is the
\* whole input; the empty string yields no segment.
C19_PlainText ==
    (xpc = "returned" /\ ~ContainsImageReference(markdown))
        => parts = IF markdown = <<>> THEN <<>> ELSE <<TextPart(markdown)>>

\* A link that is almost an image reference comes back as one text segment.
C19_Witness ==
    /\ xpc = "returned"
    /\ ~ContainsImageReference(markdown)
    /\ \E i \in 0..(Len(markdown) - 1) :
          charAt(markdown, i) = "!" /\ charAt(markdown, i + 1) = "["
    /\ \E j \in 0..(Len(markdown) - 1) :
          charAt(markdown, j) = "(" /\ charAt(markdown, j + 1) = DataImage
    /\ parts = <<TextPart(markdown)>>

RECURSIVE InSourceOrder(_, _, _)
\* The segments ps account for str from index pos on: a text segment is the
\* non-empty span up to the next image reference (or up to the end when none
\* is left, and then it is the last segment), an image segment stands for
\* the reference that starts at pos and carries its payload, and nothing of
\* str is left over after the last segment.
InSourceOrder(str, ps, pos) ==
    LET match == exec(str, pos)
    IN  IF ps = <<>>
        THEN pos = Len(str)
        ELSE IF Head(ps).type = "text"
        THEN LET end == pos + Len(Head(ps).content)
             IN  /\ end > pos
                 /\ Head(ps).content = slice(str, pos, end)
                 /\ IF match = null
                    THEN end = Len(str) /\ Tail(ps) = <<>>
                    ELSE /\ end = match.index
                         /\ Tail(ps) # <<>>
                         /\ Head(Tail(ps)).type = "image"
                         /\ InSourceOrder(str, Tail(ps), end)
        ELSE /\ match # null
             /\ match.index = pos
             /\ Head(ps).data = match.group1
             /\ Head(ps).data[1] = DataImage
             /\ InSourceOrder(str, Tail(ps), match.lastIndex)

\* The whole string is one image reference.
SingleReference(str) ==
    /\ exec(str, 0) # null
    /\ exec(str, 0).index = 0
    /\ exec(str, 0).lastIndex = Len(str)

\* C20: the segments come in source order: a text segment for each non-empty
\* span before an image reference, then the image segment with the data URI,
\* then one trailing text segment if text remains; no text segment is empty;
\* an input that is a single image reference yields exactly one image segment.
C20_SegmentsInOrder ==
    xpc = "returned" =>
        /\ InSourceOrder(markdown, parts, 0)
        /\ \A n \in 1..Len(parts) :
              parts[n].type = "text" => parts[n].content # <<>>
        /\ SingleReference(markdown) =>
              /\ Len(parts) = 1
              /\ parts[1].type = "image"

\* Text, image, text, image.
C20_Witness ==
    /\ xpc = "returned"
    /\ Len(parts) = 4
    /\ parts[1].type = "text" /\ parts[2].type = "image"
    /\ parts[3].type = "text" /\ parts[4].type = "image"

(***************************************************************************)
(* Claims about the conversion cache (CacheSpec).                          *)
(***************************************************************************)
\* The entries of an index without their timestamps, which a hit refreshes.
Keys(cache) == {[pdfPath |-> cache[i].pdfPath, outputPath |-> cache[i].outputPath] :
                  i \in 1..Len(cache)}
Key(e) == [pdfPath |-> e.pdfPath, outputPath |-> e.outputPath]
\* The persisted index, as a load would parse it.
Persisted == IF cacheFile.kind = "json" THEN cacheFile.entries ELSE <<>>
\* The request in flight has evicted an entry and completed.
Evicted(r) == cpc[r] = "done" /\ cloc[r].evictedEntry # NoEntry
\* The entries that the index held for the requested path as the call found
\* it, those whose output existed and those whose output was gone.
EntriesAtCall(r) ==
    {e \in Entries(hist.atCall[r].index) : Normalize(e.pdfPath) = Normalize(creq[r])}
ValidAtCall(r) ==
    {e \in EntriesAtCall(r) : e.outputPath \in DOMAIN hist.atCall[r].artifacts}
StaleAtCall(r) ==
    {e \in EntriesAtCall(r) : e.outputPath \notin DOMAIN hist.atCall[r].artifacts}
InFlight(r) == cpc[r] # "idle"

\* C4: the in-memory index (the module-level list, and the list a request
\* works on) and the persisted index never hold more than MAX_CACHE_SIZE
\* entries.
C4_CacheBounded ==
    /\ Len(PDF_CACHE) <= MAX_CACHE_SIZE
    /\ Len(Persisted) <= MAX_CACHE_SIZE
    /\ \A r \in CProcs : Len(cloc[r].pdfCache) <= MAX_CACHE_SIZE

\* An insert into a full index has completed and its index write succeeded:
\* memory and disk both hold exactly MAX_CACHE_SIZE entries.
C4_Witness ==
    /\ Evicted("r1")
    /\ hist.saved["r1"] = "ok"
    /\ Len(Working("r1")) = MAX_CACHE_SIZE
    /\ Len(Persisted) = MAX_CACHE_SIZE

\* The evicted entry's last use is older than that of every entry that remains.
EvictedIsLeastRecent(r) ==
    \A e \in Entries(Working(r)) :
        hist.lastUse[cloc[r].evictedEntry.pdfPath] < hist.lastUse[e.pdfPath]

\* C5 as stated: whenever an insert evicts, the evicted entry is the one whose
\* most recent use (insertion or hit) is older than that of every entry that
\* remains.
C5_EvictsLeastRecentAsStated ==
    \A r \in SeqCProcs : Evicted(r) => EvictedIsLeastRecent(r)

\* C5, amended: the same, as long as no write of the index has failed.
C5_EvictsLeastRecent ==
    \A r \in SeqCProcs : (Evicted(r) /\ ~hist.saveLost) => EvictedIsLeastRecent(r)

\* The oldest document was hit, so that the eviction which follows takes the
\* second oldest.
C5_Witness ==
    /\ Evicted("r1")
    /\ ~hist.saveLost
    /\ cloc["r1"].evictedEntry.pdfPath = Doc(2)
    /\ \E e \in Entries(Working("r1")) : e.pdfPath = Doc(1)

\* The in-memory indexes hold no entry that was purged as stale.
PurgedStayOut ==
    \A e \in hist.purged :
        /\ e \notin Entries(PDF_CACHE)
        /\ \A r \in CProcs : e \notin Entries(cloc[r].pdfCache)

\* A request that found a stale entry for its path has invoked the converter,
\* and the index it works on is without the entry.
StaleIsMiss(r) ==
    (StaleAtCall(r) # {} /\ cpc[r] \in {"c_exec", "c_cleanup", "c_insert", "done"}) =>
        /\ cloc[r].invoked
        /\ StaleAtCall(r) \cap Entries(Working(r)) = {}

\* C6 as stated: a request for a path whose entry's artifact is gone is a
\* miss; when the converter is invoked the persisted index is without the
\* entry; and the entry is in no index, in memory or persisted, afterwards.
C6_StalePurgedAsStated ==
    /\ \A r \in SeqCProcs :
         /\ StaleIsMiss(r)
         /\ (StaleAtCall(r) # {} /\ cpc[r] = "c_exec") =>
               StaleAtCall(r) \cap Entries(Persisted) = {}
    /\ PurgedStayOut
    /\ hist.purged \cap Entries(Persisted) = {}

\* C6, amended: such a request is a miss; when the converter is invoked the
\* entry is out of the in-memory index, and out of the persisted index if the
\* request's write of the index succeeded; the entry never reappears in the
\* in-memory index, nor in the persisted one as long as no index write has
\* failed.
C6_StalePurged ==
    /\ \A r \in SeqCProcs :
         /\ StaleIsMiss(r)
         /\ (StaleAtCall(r) # {} /\ cpc[r] = "c_exec" /\ hist.saved[r] = "ok") =>
               /\ cacheFile.kind = "json"
               /\ StaleAtCall(r) \cap Entries(Persisted) = {}
    /\ PurgedStayOut
    /\ ~hist.saveLost => hist.purged \cap Entries(Persisted) = {}

\* The converter runs for a path whose entry was stale, the purge persisted.
C6_Witness ==
    /\ cpc["r1"] = "c_exec"
    /\ StaleAtCall("r1") # {}
    /\ hist.saved["r1"] = "ok"
    /\ StaleAtCall("r1") \subseteq hist.purged

\* C8 as stated: after a request that evicted an entry, the entry's artifact
\* does not exist.
C8_EvictedArtifactGoneAsStated ==
    \A r \in SeqCProcs : Evicted(r) => ~existsSync(cloc[r].evictedEntry.outputPath)

\* C8, amended: the same, unless removing the artifact failed, which the
\* request ignores.
C8_EvictedArtifactGone ==
    \A r \in SeqCProcs :
        (Evicted(r) /\ ~cloc[r].cleanupError) => ~existsSync(cloc[r].evictedEntry.outputPath)

\* An eviction removed an artifact that existed when the request was made.
C8_Witness ==
    /\ Evicted("r1")
    /\ ~cloc["r1"].cleanupError
    /\ cloc["r1"].evictedEntry.outputPath \in DOMAIN hist.atCall["r1"].artifacts
    /\ ~existsSync(cloc["r1"].evictedEntry.outputPath)

\* A request whose path had a valid entry has returned.
HitDone(r) == cpc[r] = "done" /\ ValidAtCall(r) # {}
\* It returned the Markdown of the cached artifact, no artifact is new.
HitServedFromCache(r) ==
    /\ ~cloc[r].invoked
    /\ cret[r].how = "ok"
    /\ \E e \in ValidAtCall(r) : cret[r].data = hist.atCall[r].artifacts[e.outputPath].md
    /\ DOMAIN artifacts \subseteq DOMAIN hist.atCall[r].artifacts

\* C9 as stated: the converter is invoked only if the index held no entry for
\* the normalized path with an existing artifact; a request with such an entry
\* returns the cached Markdown, creates no artifact and leaves the set of
\* entries of the index as it was.
C9_HitSkipsConverterAsStated ==
    \A r \in SeqCProcs :
        /\ (InFlight(r) /\ cloc[r].invoked) => ValidAtCall(r) = {}
        /\ HitDone(r) =>
              /\ HitServedFromCache(r)
              /\ Keys(Working(r)) = Keys(hist.atCall[r].index)

\* C9, amended: the same, but the request may drop from the index the entries
\* whose artifact no longer exists; it adds none and drops no other.
C9_HitSkipsConverter ==
    \A r \in SeqCProcs :
        /\ (InFlight(r) /\ cloc[r].invoked) => ValidAtCall(r) = {}
        /\ HitDone(r) =>
              /\ HitServedFromCache(r)
              /\ Keys(Working(r)) \subseteq Keys(hist.atCall[r].index)
              /\ \A e \in Entries(hist.atCall[r].index) :
                    e.outputPath \in DOMAIN hist.atCall[r].artifacts
                        => Key(e) \in Keys(Working(r))

\* A hit has returned the cached Markdown of the oldest document.
C9_Witness ==
    /\ HitDone("r1")
    /\ cret["r1"].data = Doc(1)
    /\ creq["r1"] # Doc(1)

\* The request is a hit and has saved the index: it is about to read the
\* cached output, or has returned it.
HitSaved(r) == cpc[r] \in {"c_readHit", "done"} /\ ValidAtCall(r) # {}
\* The entry for the path is first with a later timestamp than it had and
\* than any other has; the others that are still there follow in the order
\* they had.
HitMovedToFront(r) ==
    LET cache == Working(r)
        was == hist.atCall[r].index
        i == findIndex(was, Normalize(creq[r]))
        Kept(e) == e \in Entries(Tail(cache))
    IN  /\ cache # <<>>
        /\ Key(cache[1]) = Key(was[i])
        /\ cache[1].timestamp > was[i].timestamp
        /\ \A e \in Entries(Tail(cache)) : cache[1].timestamp > e.timestamp
        /\ Tail(cache) = SelectSeq(Splice(was, i), Kept)

\* C10 as stated: on a hit the entry is first in the index with a refreshed
\* timestamp, the other entries keep their relative order, and the persisted
\* index is the reordered one before the cached output is read.
C10_HitRefreshesAsStated ==
    \A r \in SeqCProcs :
        HitSaved(r) =>
            /\ HitMovedToFront(r)
            /\ cacheFile.kind = "json"
            /\ Persisted = Working(r)

\* C10, amended: the same, the persisted index being the reordered one if the
\* write of the index succeeded; if it failed the cached output is read and
\* returned all the same.
C10_HitRefreshes ==
    \A r \in SeqCProcs :
        HitSaved(r) =>
            /\ HitMovedToFront(r)
            /\ hist.saved[r] = "ok" => (cacheFile.kind = "json" /\ Persisted = Working(r))

\* The oldest entry was hit: it is first, saved, and its output not read yet.
C10_Witness ==
    /\ cpc["r1"] = "c_readHit"
    /\ hist.saved["r1"] = "ok"
    /\ Len(Working("r1")) = MAX_CACHE_SIZE
    /\ Working("r1")[1].pdfPath = Doc(1)
    /\ Persisted = Working("r1")

\* The request has returned Markdown to its caller: a hit whose cached output
\* was read, or a miss whose conversion succeeded.
ReturnedOk(r) == cpc[r] = "done" /\ cret[r].how = "ok"
\* The entry for the normalized path of request r is the first of cache.
FirstIsRequested(r, cache) ==
    /\ cache # <<>>
    /\ cache[1].pdfPath = Normalize(creq[r])

\* C29 as stated: when a request has returned successfully, the entry for its
\* normalized path is the first of the persisted index, and the persisted
\* index is the in-memory index the request finished with.
C29_ReturnedEntryFirstAsStated ==
    \A r \in SeqCProcs :
        ReturnedOk(r) =>
            /\ cacheFile.kind = "json"
            /\ FirstIsRequested(r, Persisted)
            /\ Persisted = Working(r)

\* C29, amended: when a request has returned successfully, the entry for its
\* normalized path is the first of the in-memory index; if the request's
\* last write of the index succeeded, the persisted index is that in-memory
\* index, and so has the entry first.
C29_ReturnedEntryFirst ==
    \A r \in SeqCProcs :
        ReturnedOk(r) =>
            /\ FirstIsRequested(r, Working(r))
            /\ hist.saved[r] = "ok" =>
                  /\ cacheFile.kind = "json"
                  /\ FirstIsRequested(r, Persisted)
                  /\ Persisted = Working(r)

\* A conversion has succeeded with a full index: its entry is first in the
\* persisted index, and the least recent entry has gone from both.
C29_Witness ==
    /\ ReturnedOk("r1")
    /\ cloc["r1"].invoked
    /\ cloc["r1"].evictedEntry # NoEntry
    /\ hist.saved["r1"] = "ok"
    /\ Len(Persisted) = MAX_CACHE_SIZE
    /\ FirstIsRequested("r1", Persisted)
    /\ Persisted = Working("r1")

\* No conversion output that existed when request r was called has gone since,
\* other than the output of the entry the request itself evicted.
NoOutOfBandDelete(r) ==
    \A o \in DOMAIN hist.atCall[r].artifacts :
        o \in DOMAIN artifacts \/ o = cloc[r].evictedEntry.outputPath
\* Every entry of cache has its output on disk.
AllOutputsExist(cache) == \A e \in Entries(cache) : existsSync(e.outputPath)
\* A request that returned a hit had an entry with its output on disk when it
\* was called, and one that found a stale entry works without it.
HitOnlyIfValid(r) ==
    /\ (cpc[r] = "done" /\ ~cloc[r].invoked) => ValidAtCall(r) # {}
    /\ StaleIsMiss(r)

\* C30 as stated: when a request has returned, with Markdown or with an error,
\* and no output was deleted out-of-band during it, every entry of the
\* persisted index has its output on disk; a stale entry is purged, never
\* returned as a hit.
C30_PersistedOutputsExistAsStated ==
    \A r \in SeqCProcs :
        /\ (cpc[r] = "done" /\ NoOutOfBandDelete(r)) => AllOutputsExist(Persisted)
        /\ HitOnlyIfValid(r)

\* Entry e was left unchecked by request r: version (B) checks the outputs of
\* all entries when the module loads and afterwards only the output of the
\* entry for the requested path, so the entry of another path whose output
\* had gone before the call stays in the index.
UncheckedStale(r, e) ==
    /\ variant = "B"
    /\ e.pdfPath # Normalize(creq[r])
    /\ e.outputPath \notin DOMAIN hist.atCall[r].artifacts

\* C30, amended: when a request has returned and no output was deleted
\* out-of-band during it, every entry of the persisted index has its output
\* on disk, unless a write of the index has failed, or the entry is one of
\* another path that version (B) did not check; a stale entry for the
\* requested path is purged, never returned as a hit.
C30_PersistedOutputsExist ==
    \A r \in SeqCProcs :
        /\ (cpc[r] = "done" /\ NoOutOfBandDelete(r) /\ ~hist.saveLost) =>
              \A e \in Entries(Persisted) :
                  existsSync(e.outputPath) \/ UncheckedStale(r, e)
        /\ HitOnlyIfValid(r)

\* Version (A) has returned after dropping, when it loaded the index, an entry
\* whose output had gone before the call; the persisted index is not empty
\* and every output it names exists.
C30_Witness ==
    /\ variant = "A"
    /\ cpc["r1"] = "done"
    /\ NoOutOfBandDelete("r1")
    /\ ~hist.saveLost
    /\ \E e \in Entries(hist.atCall["r1"].index) :
           /\ e.outputPath \notin DOMAIN hist.atCall["r1"].artifacts
           /\ e \notin Entries(Persisted)
    /\ Persisted # <<>>
    /\ AllOutputsExist(Persisted)

\* No two entries of cache have the same source path.
UniquePaths(cache) ==
    \A i, j \in 1..Len(cache) : cache[i].pdfPath = cache[j].pdfPath => i = j
\* The persisted index, the module-level index and the index of every request
\* in flight are without two entries for one source path.
UniqueKeys ==
    /\ UniquePaths(Persisted)
    /\ UniquePaths(PDF_CACHE)
    /\ \A r \in CProcs : UniquePaths(cloc[r].pdfCache)

\* C35 as stated: whatever requests were made, two overlapping requests for
\* one source path included, no index holds two entries with the same
\* normalized source path.
C35_UniqueKeysAsStated == UniqueKeys

\* C35, amended: no index holds two entries with the same normalized source
\* path as long as no request was made while another was in flight, and the
\* indexes of pdfToMarkdown (A) never do; with pdf_to_markdown (B) two
\* overlapping requests that both miss each put an entry for the path into
\* PDF_CACHE.
C35_UniqueKeys ==
    /\ ~hist.overlap => UniqueKeys
    /\ variant = "A" => UniqueKeys

\* Two overlapping requests of pdfToMarkdown (A) for one path have both
\* converted it and returned: the index holds the path once.
C35_Witness ==
    /\ variant = "A"
    /\ hist.overlap
    /\ \A r \in CProcs : cpc[r] = "done" /\ cret[r].how = "ok" /\ cloc[r].invoked
    /\ Normalize(creq["r1"]) = Normalize(creq["r2"])
    /\ Persisted # <<>>
    /\ Persisted[1].pdfPath = Normalize(creq["r1"])
    /\ UniqueKeys

\* The outputs of successful conversions that are on disk and that no entry
\* of the persisted index refers to.
Orphans ==
    {o \in hist.converted \cap DOMAIN artifacts :
        \A e \in Entries(Persisted) : e.outputPath # o}
\* No file-system call of the cache has failed: every write of the index and
\* every removal of an output went through.
NoFault == budget.disturbances = MaxDisturbances

FailedDone(r) == cpc[r] = "done" /\ cloc[r].failed
\* No index holds an entry with the output path generated for request r.
NotIndexed(r) ==
    \A e \in Entries(Working(r)) \cup Entries(PDF_CACHE) \cup Entries(Persisted) :
        e.outputPath # cloc[r].tempFilePath

\* C13 as stated: a request whose conversion fails ends with an error, nothing
\* exists at the generated output path when it does, and no index, in memory
\* or persisted, has got an entry for the conversion.
C13_FailureCleansUpAsStated ==
    \A r \in SeqCProcs :
        FailedDone(r) =>
            /\ cret[r].how = "error"
            /\ ~existsSync(cloc[r].tempFilePath)
            /\ NotIndexed(r)

\* C13, amended: the same, but the output stays at the generated path if
\* removing it failed, which the request ignores.
C13_FailureCleansUp ==
    \A r \in SeqCProcs :
        FailedDone(r) =>
            /\ cret[r].how = "error"
            /\ ~cloc[r].cleanupError => ~existsSync(cloc[r].tempFilePath)
            /\ NotIndexed(r)

\* A request for a path whose entry was stale has failed to convert: the path
\* has no entry any more, and nothing is left of the attempt.
C13_Witness ==
    /\ FailedDone("r1")
    /\ StaleAtCall("r1") # {}
    /\ cret["r1"].how = "error"
    /\ ~cloc["r1"].cleanupError
    /\ findIndex(Working("r1"), Normalize(creq["r1"])) = 0

====
